---- MODULE Spec2Model ----
(***************************************************************************)
(* PipeTest: the semantic compiler (internal/compiler) and the evaluator   *)
(* (internal/runtime) as one state machine.  A program is drawn from a     *)
(* bounded family of parsed modules, Compile runs the passes over it, and  *)
(* Execute walks the plan flow by flow, step by step, phase by phase.      *)
(***************************************************************************)
EXTENDS Integers, Sequences, FiniteSets, TLC

(***************************************************************************)
(* Bounds of the model.                                                    *)
(***************************************************************************)
\* most flow declarations in one entry module
MaxFlows == 2
\* most dispatches the transport answers with an error or a non-200 status
MaxFaults == 1

(***************************************************************************)
(* Small helpers over sequences and sets.                                  *)
(***************************************************************************)
Range(s) == {s[i] : i \in 1..Len(s)}

Contains(s, x) == \E i \in 1..Len(s) : s[i] = x

RECURSIVE Concat(_)
Concat(ss) == IF ss = <<>> THEN <<>> ELSE Head(ss) \o Concat(Tail(ss))

\* the first occurrence of every element, in order
RECURSIVE Uniq(_)
Uniq(s) ==
    IF s = <<>> THEN <<>>
    ELSE LET r == Uniq(SubSeq(s, 1, Len(s) - 1))
             x == s[Len(s)]
         IN IF Contains(r, x) THEN r ELSE Append(r, x)

\* the elements of s at the indices idx, in order
AtIndices(s, idx) ==
    [p \in 1..Cardinality(idx) |->
        s[CHOOSE i \in idx : Cardinality({j \in idx : j < i}) = p - 1]]

\* a for loop over s: body maps the state before an element to the state
\* after it.  The loop is evaluated by halves, the state after the first half
\* being computed before the second half starts, so that the nesting of the
\* evaluation grows with the logarithm of Len(s).
RECURSIVE ForEach(_, _, _)
ForEach(body(_, _), st, s) ==
    IF s = <<>> THEN st
    ELSE IF Len(s) = 1 THEN body(st, s[1])
    ELSE LET mid == Len(s) \div 2
             st1 == ForEach(body, st, SubSeq(s, 1, mid))
         IN IF st1 = st1 THEN ForEach(body, st1, SubSeq(s, mid + 1, Len(s))) ELSE st1

SelectKind(lines, kind) == AtIndices(lines, {i \in 1..Len(lines) : lines[i].kind = kind})

(***************************************************************************)
(* The AST (package ast): records tagged by node type.                     *)
(***************************************************************************)
Span(l, c) == [Line |-> l, Column |-> c]

StringLit(v) == [k |-> "StringLit", Value |-> v]
NumberLit(raw) == [k |-> "NumberLit", Raw |-> raw]
IdentExpr(n) == [k |-> "IdentExpr", Name |-> n]
HashExpr == [k |-> "HashExpr"]
FieldExpr(x, n) == [k |-> "FieldExpr", X |-> x, Name |-> n]
IndexExpr(x, i) == [k |-> "IndexExpr", X |-> x, Index |-> i]
ObjectLit(pairs) == [k |-> "ObjectLit", Pairs |-> pairs]
ObjectPair(key, v) == [Key |-> key, Value |-> v]
BinaryExpr(op, l, r) == [k |-> "BinaryExpr", Op |-> op, Left |-> l, Right |-> r]

LValueRoot(kind, n) == [Kind |-> kind, Name |-> n]
LValueField(n) == [Kind |-> "LValueField", Name |-> n, Index |-> StringLit("")]
LValueIndex(i) == [Kind |-> "LValueIndex", Name |-> "", Index |-> i]
LValue(root, postfix) == [Root |-> root, Postfix |-> postfix]

AssignStmt(l, target, v) ==
    [k |-> "AssignStmt", Span |-> Span(l, 4), Target |-> target, Value |-> v]
ExprStmt(e) == [k |-> "ExprStmt", Expr |-> e]

HttpLine(l, m, p) == [kind |-> "HttpLine", Span |-> Span(l, 2), Method |-> m, Path |-> p]
HeaderDirective(l, key, v) ==
    [kind |-> "HeaderDirective", Span |-> Span(l, 2), Key |-> key, Value |-> v]
QueryDirective(l, key, v) ==
    [kind |-> "QueryDirective", Span |-> Span(l, 2), Key |-> key, Value |-> v]
AuthDirective(l, v) ==
    [kind |-> "AuthDirective", Span |-> Span(l, 2), Scheme |-> "AuthBearer", Value |-> v]
JsonDirective(l, v) == [kind |-> "JsonDirective", Span |-> Span(l, 2), Value |-> v]
HookBlock(l, hk, stmts) ==
    [kind |-> "HookBlock", Span |-> Span(l, 2), Kind |-> hk, Stmts |-> stmts]
AssertStmt(l, e) == [kind |-> "AssertStmt", Span |-> Span(l, 2), Expr |-> e]
LetStmt(l, n, v) == [kind |-> "LetStmt", Span |-> Span(l, 2), Name |-> n, Value |-> v]

\* a nil *string (ReqDecl.Parent, FlowStep.Alias)
NoName == ""

ImportStmt(l, p) == [kind |-> "ImportStmt", Span |-> Span(l, 1), Path |-> p]
GlobalLet(l, n, v) == [kind |-> "LetStmt", Span |-> Span(l, 1), Name |-> n, Value |-> v]
ReqDecl(l, n, parent, lines) ==
    [kind |-> "ReqDecl", Span |-> Span(l, 1), Name |-> n, Parent |-> parent, Lines |-> lines]
FlowStep(l, c, req, alias) == [Span |-> Span(l, c), ReqName |-> req, Alias |-> alias]
FlowDecl(l, n, prelude, chain, asserts) ==
    [kind |-> "FlowDecl", Span |-> Span(l, 1), Name |-> n, Prelude |-> prelude,
     Chain |-> chain, Asserts |-> asserts]

(***************************************************************************)
(* The two regular expressions of the compiler and the evaluator,          *)
(* pathParamRE (:name) and templateVarRE ({{name}}), over the texts of the *)
(* family: each text is cut into its literal pieces, its :name path        *)
(* parameters and its {{name}} placeholders.                               *)
(***************************************************************************)
Lit(s) == [p |-> "lit", s |-> s]
Param(n) == [p |-> "param", s |-> n]
Tpl(n) == [p |-> "tpl", s |-> n]

Pieces(text) ==
    CASE text = "/parent/:id" -> <<Lit("/parent/"), Param("id")>>
      [] text = "/child/:id" -> <<Lit("/child/"), Param("id")>>
      [] text = "/orders/:id" -> <<Lit("/orders/"), Param("id")>>
      [] text = "/sh/:shared" -> <<Lit("/sh/"), Param("shared")>>
      [] text = "t-{{token}}" -> <<Lit("t-"), Tpl("token")>>
      [] text = "{{status}}" -> <<Tpl("status")>>
      [] OTHER -> <<Lit(text)>>

PieceNames(text, kind) ==
    LET ps == SelectSeq(Pieces(text), LAMBDA x : x.p = kind)
    IN [i \in 1..Len(ps) |-> ps[i].s]

pathParamRE(path) == PieceNames(path, "param")

templateVarRE(raw) == PieceNames(raw, "tpl")

(***************************************************************************)
(* The family of programs.  The entry module a.pt declares two global      *)
(* lets and the requests below; a variant adds the statements of one       *)
(* further case; the flows are a sequence of distinct flow declarations.   *)
(*                                                                         *)
(*   let id = "abc"                                                        *)
(*   let cfg = {a: "1"}                                                    *)
(*   req login:              req parent:                                   *)
(*     POST /login             GET /parent/:id                             *)
(*     json {user: "u"}        header XReq = "parent"                      *)
(*     ? status == 200         pre hook { req.header["X-From-Pre"] = "parent" } *)
(*     let token = #.token     post hook { seen = "parent" }               *)
(*     header XStage = "directive"   ? status == 201                       *)
(*     pre hook { req.header["XStage"] = "pre" }                           *)
(*                             ? #.token == "abc"                          *)
(*                             let token = "parent"                        *)
(*                             query v = "parent"                          *)
(*   req child(parent):      req heir(parent):                             *)
(*     GET /child/:id          GET /heir                                   *)
(*     header XReq = "child"   query q = id                                *)
(*     pre hook { req.header["X-From-Pre"] = "child" }                     *)
(*     post hook { seen = #.value }                                        *)
(*     ? status == 200                                                     *)
(*     let token = #.token                                                 *)
(*     query v = "child"                                                   *)
(*   req orders:             req w:                                        *)
(*     let count = #.value     GET /w                                      *)
(*     ? status == 200         pre hook { cfg.a = "2" }                    *)
(*     auth bearer token     req r:                                        *)
(*     header XTrace = "t-{{token}}"   GET /r                              *)
(*     GET /orders/:id         ? cfg.a == "1"                              *)
(***************************************************************************)
EntryPath == "a.pt"
LibPath == "lib.pt"

StatusIs(n) == BinaryExpr("==", IdentExpr("status"), NumberLit(n))

PreHeader(l, key, v) ==
    <<AssignStmt(l, LValue(LValueRoot("LValueReq", "req"),
                        <<LValueField("header"), LValueIndex(StringLit(key))>>),
                 StringLit(v))>>

GlobalLets ==
    <<GlobalLet(2, "id", StringLit("abc")),
      GlobalLet(3, "cfg", ObjectLit(<<ObjectPair("a", StringLit("1"))>>))>>

ReqLogin ==
    ReqDecl(10, "login", NoName,
        <<HttpLine(11, "MethodPost", "/login"),
          JsonDirective(12, ObjectLit(<<ObjectPair("user", StringLit("u"))>>)),
          AssertStmt(13, StatusIs("200")),
          LetStmt(14, "token", FieldExpr(HashExpr, "token")),
          HeaderDirective(15, "XStage", StringLit("directive")),
          HookBlock(16, "HookPre", PreHeader(17, "XStage", "pre"))>>)

ReqParent ==
    ReqDecl(20, "parent", NoName,
        <<HttpLine(21, "MethodGet", "/parent/:id"),
          HeaderDirective(22, "XReq", StringLit("parent")),
          HookBlock(23, "HookPre", PreHeader(24, "X-From-Pre", "parent")),
          HookBlock(25, "HookPost",
              <<AssignStmt(26, LValue(LValueRoot("LValueIdent", "seen"), <<>>),
                           StringLit("parent"))>>),
          AssertStmt(27, StatusIs("201")),
          AssertStmt(28, BinaryExpr("==", FieldExpr(HashExpr, "token"), StringLit("abc"))),
          LetStmt(29, "token", StringLit("parent")),
          QueryDirective(30, "v", StringLit("parent"))>>)

ReqChild ==
    ReqDecl(31, "child", "parent",
        <<HttpLine(32, "MethodGet", "/child/:id"),
          HeaderDirective(33, "XReq", StringLit("child")),
          HookBlock(34, "HookPre", PreHeader(35, "X-From-Pre", "child")),
          HookBlock(36, "HookPost",
              <<AssignStmt(37, LValue(LValueRoot("LValueIdent", "seen"), <<>>),
                           FieldExpr(HashExpr, "value"))>>),
          AssertStmt(38, StatusIs("200")),
          LetStmt(39, "token", FieldExpr(HashExpr, "token")),
          QueryDirective(40, "v", StringLit("child"))>>)

ReqHeir ==
    ReqDecl(41, "heir", "parent",
        <<HttpLine(42, "MethodGet", "/heir"),
          QueryDirective(43, "q", IdentExpr("id"))>>)

ReqOrders ==
    ReqDecl(50, "orders", NoName,
        <<LetStmt(51, "count", FieldExpr(HashExpr, "value")),
          AssertStmt(52, StatusIs("200")),
          AuthDirective(53, IdentExpr("token")),
          HeaderDirective(54, "XTrace", StringLit("t-{{token}}")),
          HttpLine(55, "MethodGet", "/orders/:id")>>)

ReqW ==
    ReqDecl(60, "w", NoName,
        <<HttpLine(61, "MethodGet", "/w"),
          HookBlock(62, "HookPre",
              <<AssignStmt(63, LValue(LValueRoot("LValueIdent", "cfg"), <<LValueField("a")>>),
                           StringLit("2"))>>)>>)

ReqR ==
    ReqDecl(65, "r", NoName,
        <<HttpLine(66, "MethodGet", "/r"),
          AssertStmt(67, BinaryExpr("==", FieldExpr(IdentExpr("cfg"), "a"), StringLit("1")))>>)

BaseReqs == <<ReqLogin, ReqParent, ReqChild, ReqHeir, ReqOrders, ReqW, ReqR>>

\* req sh:  GET /sh/:shared      (shared is a global let of lib.pt)
ReqSh == ReqDecl(70, "sh", NoName, <<HttpLine(71, "MethodGet", "/sh/:shared")>>)

\* req ub:  GET /ub ; header XBad = bad     (let bad = nope, a global let)
ReqUb ==
    ReqDecl(75, "ub", NoName,
        <<HttpLine(76, "MethodGet", "/ub"),
          HeaderDirective(77, "XBad", IdentExpr("bad"))>>)

\* req echo:                               req touch:
\*   GET /echo                                GET /touch
\*   post hook { snap = #                     pre hook { snap.token = "t" }
\*               snap.value = "changed" }
ReqEcho ==
    ReqDecl(250, "echo", NoName,
        <<HttpLine(251, "MethodGet", "/echo"),
          HookBlock(252, "HookPost",
              <<AssignStmt(253, LValue(LValueRoot("LValueIdent", "snap"), <<>>), HashExpr),
                AssignStmt(254, LValue(LValueRoot("LValueIdent", "snap"),
                                       <<LValueField("value")>>),
                           StringLit("changed"))>>)>>)

ReqTouch ==
    ReqDecl(255, "touch", NoName,
        <<HttpLine(256, "MethodGet", "/touch"),
          HookBlock(257, "HookPre",
              <<AssignStmt(258, LValue(LValueRoot("LValueIdent", "snap"),
                                       <<LValueField("token")>>),
                           StringLit("t"))>>)>>)

\* req authed:                             req listUsers(authed):
\*   auth bearer token                        GET /users
\*   header Accept = "application/json"
ReqAuthed ==
    ReqDecl(260, "authed", NoName,
        <<AuthDirective(261, IdentExpr("token")),
          HeaderDirective(262, "Accept", StringLit("application/json"))>>)

ReqListUsers ==
    ReqDecl(263, "listUsers", "authed", <<HttpLine(264, "MethodGet", "/users")>>)

\* the statements a variant adds to the entry module
VariantStmts(v) ==
    CASE v = "lib" -> <<ImportStmt(4, LibPath), ReqSh>>
      [] v = "importcycle" -> <<ImportStmt(4, LibPath)>>
      [] v = "nolib" -> <<ReqSh>>
      [] v = "missingimport" -> <<ImportStmt(4, LibPath)>>
      [] v = "badglobal" -> <<GlobalLet(5, "bad", IdentExpr("nope")), ReqUb>>
      [] v = "mutate" -> <<ReqEcho, ReqTouch>>
      [] v = "template" -> <<ReqAuthed, ReqListUsers>>
      [] v = "nohttp" ->
            <<ReqDecl(80, "nohttp", NoName, <<HeaderDirective(81, "X", StringLit("1"))>>)>>
      [] v = "cycle" ->
            <<ReqDecl(82, "cyc1", "cyc2", <<HttpLine(83, "MethodGet", "/c1")>>),
              ReqDecl(84, "cyc2", "cyc1", <<HttpLine(85, "MethodGet", "/c2")>>)>>
      [] v = "selfparent" ->
            <<ReqDecl(230, "selfp", "selfp", <<HttpLine(231, "MethodGet", "/s")>>),
              ReqDecl(232, "tri1", "tri3", <<HttpLine(233, "MethodGet", "/t1")>>),
              ReqDecl(234, "tri2", "tri1", <<HttpLine(235, "MethodGet", "/t2")>>),
              ReqDecl(236, "tri3", "tri2", <<HttpLine(237, "MethodGet", "/t3")>>)>>
      [] v = "unordered" ->
            <<ReqDecl(240, "orphan1", "ghost", <<HeaderDirective(241, "X", StringLit("1"))>>),
              ReqDecl(242, "orphan2", "ghost", <<HeaderDirective(243, "X", StringLit("1"))>>)>>
      [] v = "orphan" ->
            <<ReqDecl(86, "orphan", "ghost", <<HttpLine(87, "MethodGet", "/o")>>)>>
      [] v = "prehash" ->
            <<ReqDecl(88, "prehash", NoName,
                <<HttpLine(89, "MethodGet", "/p"),
                  HookBlock(90, "HookPre", <<ExprStmt(FieldExpr(HashExpr, "x"))>>)>>)>>
      [] v = "dupreq" -> <<ReqDecl(92, "login", NoName, <<HttpLine(93, "MethodGet", "/l2")>>)>>
      [] v = "preres" ->
            <<ReqDecl(220, "preres", NoName,
                <<HttpLine(221, "MethodGet", "/p"),
                  HookBlock(222, "HookPre",
                      <<AssignStmt(223, LValue(LValueRoot("LValueReq", "req"),
                                       <<LValueField("header"), LValueIndex(StringLit("XStage"))>>),
                                   FieldExpr(IdentExpr("res"), "token"))>>)>>),
              ReqDecl(224, "pretpl", NoName,
                <<HttpLine(225, "MethodGet", "/p"),
                  HookBlock(226, "HookPre", PreHeader(227, "XStage", "{{status}}"))>>)>>
      [] v = "duplicates" ->
            <<ReqDecl(200, "twohttp", NoName,
                <<HttpLine(201, "MethodGet", "/h1"), HttpLine(202, "MethodPost", "/h2")>>),
              ReqDecl(203, "twojson", NoName,
                <<HttpLine(204, "MethodPost", "/j"),
                  JsonDirective(205, ObjectLit(<<ObjectPair("user", StringLit("u"))>>)),
                  JsonDirective(206, ObjectLit(<<ObjectPair("user", StringLit("v"))>>))>>),
              ReqDecl(207, "twopost", NoName,
                <<HttpLine(208, "MethodGet", "/o"),
                  HookBlock(209, "HookPost",
                      <<AssignStmt(210, LValue(LValueRoot("LValueIdent", "seen"), <<>>),
                                   StringLit("a"))>>),
                  HookBlock(211, "HookPost",
                      <<AssignStmt(212, LValue(LValueRoot("LValueIdent", "seen"), <<>>),
                                   StringLit("v"))>>)>>),
              ReqDecl(213, "twopre", NoName,
                <<HttpLine(214, "MethodGet", "/p"),
                  HookBlock(215, "HookPre", PreHeader(216, "XStage", "a")),
                  HookBlock(217, "HookPre", PreHeader(218, "XStage", "v"))>>)>>
      [] OTHER -> <<>>

\* the modules a variant loads next to the entry module
VariantModules(v) ==
    IF v \in {"lib", "importcycle"} THEN {LibPath} ELSE {}

LibStmts == <<GlobalLet(1, "shared", StringLit("s"))>>

\* the statements of lib.pt; in the variant importcycle it imports a.pt back
VariantLibStmts(v) ==
    IF v = "importcycle" THEN <<ImportStmt(1, EntryPath), GlobalLet(2, "shared", StringLit("s"))>>
    ELSE LibStmts

BindingStatus(b, n) ==
    BinaryExpr("==", FieldExpr(IdentExpr(b), "status"), NumberLit(n))

\* the flow declarations, by name; l is the line of the declaration
FlowTemplate(name, l) ==
    CASE name = "f-login" ->
            FlowDecl(l, name, <<>>,
                <<FlowStep(l + 1, 2, "login", NoName), FlowStep(l + 1, 11, "orders", "o")>>,
                <<AssertStmt(l + 2, BindingStatus("o", "200")),
                  AssertStmt(l + 3, BinaryExpr("==", IdentExpr("token"), StringLit("abc")))>>)
      [] name = "c-child" ->
            FlowDecl(l, name, <<>>,
                <<FlowStep(l + 1, 2, "child", NoName)>>,
                <<AssertStmt(l + 2, BinaryExpr("==",
                      FieldExpr(FieldExpr(IdentExpr("child"), "res"), "value"),
                      StringLit("child")))>>)
      [] name = "e-heir" ->
            FlowDecl(l, name, <<LetStmt(l + 1, "id", StringLit("p 1"))>>,
                <<FlowStep(l + 2, 2, "heir", NoName), FlowStep(l + 2, 10, "child", NoName)>>,
                <<>>)
      [] name = "a-w" ->
            FlowDecl(l, name, <<>>, <<FlowStep(l + 1, 2, "w", NoName)>>,
                <<AssertStmt(l + 2, BinaryExpr("==", FieldExpr(IdentExpr("cfg"), "a"),
                                               StringLit("1")))>>)
      [] name = "b-r" ->
            FlowDecl(l, name, <<>>, <<FlowStep(l + 1, 2, "r", NoName)>>, <<>>)
      [] name = "d-bad" ->
            FlowDecl(l, name, <<>>, <<FlowStep(l + 1, 2, "orders", NoName)>>, <<>>)
      [] name = "g-dup" ->
            FlowDecl(l, name, <<>>,
                <<FlowStep(l + 1, 2, "login", NoName), FlowStep(l + 1, 11, "login", NoName)>>,
                <<>>)
      [] name = "s-sh" ->
            FlowDecl(l, name, <<>>, <<FlowStep(l + 1, 2, "sh", NoName)>>, <<>>)
      [] name = "h-shadow" ->
            FlowDecl(l, name, <<>>,
                <<FlowStep(l + 1, 2, "login", "token"), FlowStep(l + 1, 17, "r", NoName)>>,
                <<AssertStmt(l + 2, BinaryExpr("==", IdentExpr("token"), StringLit("abc"))),
                  AssertStmt(l + 3, BindingStatus("token", "200")),
                  AssertStmt(l + 4, BindingStatus("r", "200"))>>)
      [] name = "l-alias" ->
            FlowDecl(l, name, <<>>, <<FlowStep(l + 1, 2, "login", "login")>>, <<>>)
      [] name = "m-echo" ->
            FlowDecl(l, name, <<>>,
                <<FlowStep(l + 1, 2, "echo", "e"), FlowStep(l + 1, 12, "touch", NoName)>>,
                <<AssertStmt(l + 2, BinaryExpr("==",
                      FieldExpr(FieldExpr(IdentExpr("e"), "res"), "value"),
                      StringLit("child")))>>)
      [] OTHER ->
            FlowDecl(l, name, <<>>, <<FlowStep(l + 1, 2, "ub", NoName)>>, <<>>)

BaseFlowNames == {"f-login", "c-child", "e-heir", "a-w", "b-r", "d-bad", "g-dup"}

\* the sequences of at most n distinct names of S
RECURSIVE DistinctSeqs(_, _)
DistinctSeqs(S, n) ==
    IF n = 0 THEN {<<>>}
    ELSE LET shorter == DistinctSeqs(S, n - 1)
             longer == {Append(s, x) : s \in shorter, x \in S}
         IN shorter \cup {s \in longer : Cardinality(Range(s)) = Len(s)}

\* the flow name sequences a variant is run with
VariantFlows(v) ==
    CASE v = "plain" -> DistinctSeqs(BaseFlowNames, MaxFlows)
      [] v = "lib" -> {<<"s-sh">>, <<"s-sh", "c-child">>}
      [] v = "nolib" -> {<<"s-sh">>}
      [] v = "shadow" -> {<<"h-shadow">>, <<"h-shadow", "c-child">>}
      [] v = "mutate" -> {<<"m-echo">>, <<"m-echo", "c-child">>}
      [] v = "alias" -> {<<"l-alias">>, <<"l-alias", "c-child">>}
      [] v = "badglobal" -> {<<>>, <<"u-ub">>, <<"u-ub", "c-child">>}
      [] OTHER -> {<<>>, <<"c-child">>}

Variants ==
    {"plain", "lib", "nolib", "missingimport", "badglobal",
     "nohttp", "cycle", "orphan", "prehash", "dupreq", "duplicates",
     "preres", "importcycle", "selfparent", "unordered", "shadow",
     "mutate", "alias", "template"}

\* the choices a program of the family is built from
Choices == {[variant |-> v, flows |-> fs] : v \in Variants, fs \in UNION {VariantFlows(x) : x \in Variants}}

ProgramChoices == {c \in Choices : c.flows \in VariantFlows(c.variant)}

EntryStmts(c) ==
    GlobalLets \o BaseReqs \o VariantStmts(c.variant)
    \o [i \in 1..Len(c.flows) |-> FlowTemplate(c.flows[i], 100 + 10 * i)]

\* Compile's second argument: the loaded modules, by canonical path
Modules(c) ==
    [p \in {EntryPath} \cup VariantModules(c.variant) |->
        IF p = EntryPath THEN EntryStmts(c) ELSE VariantLibStmts(c.variant)]

(***************************************************************************)
(* Go's string order (bytewise) over the strings the family can produce,   *)
(* and the sorts built on it.                                              *)
(***************************************************************************)
StringOrder ==
    <<"", "/users", "Accept", "Content-Type", "E_IMPORT_CYCLE",
      "E_IMPORT_FLOW_IN_IMPORTED_FILE", "E_IMPORT_NOT_FOUND",
      "E_SEM_ASSIGN_TO_RES_FORBIDDEN", "E_SEM_DUPLICATE_FLOW_BINDING",
      "E_SEM_DUPLICATE_FLOW_NAME", "E_SEM_DUPLICATE_POST_HOOK",
      "E_SEM_DUPLICATE_PRE_HOOK", "E_SEM_DUPLICATE_REQ_NAME",
      "E_SEM_FLOW_MISSING_CHAIN", "E_SEM_INHERITANCE_CYCLE",
      "E_SEM_MISSING_PATH_PARAM_VAR", "E_SEM_MULTIPLE_BODIES",
      "E_SEM_PRE_HOOK_REFERENCES_RES", "E_SEM_REQ_MISSING_HTTP_LINE",
      "E_SEM_REQ_MULTIPLE_HTTP_LINES", "E_SEM_UNDEFINED_VARIABLE",
      "E_SEM_UNKNOWN_FLOW_BINDING", "E_SEM_UNKNOWN_PARENT_REQ",
      "E_SEM_UNKNOWN_REQ_IN_FLOW", "E_X", "X", "XStage", "a", "a-w", "a.pt",
      "application/json", "assignment to res is forbidden", "authed", "b-r", "bad",
      "c-child", "cfg", "changed", "child", "count", "cyc1", "cyc2", "d-bad",
      "directive", "duplicate flow binding: login", "duplicate flow name",
      "duplicate request name", "e", "e-heir", "echo", "entry module not found",
      "f-login", "flow must contain a chain", "flow-a", "flow-b",
      "flows are not allowed in imported files", "g-dup", "h-shadow", "heir", "id",
      "import cycle detected", "import not found: lib.pt", "l-alias", "lib.pt",
      "listUsers", "login", "m-echo", "nohttp", "nope", "o", "orders", "orphan",
      "orphan1", "orphan2", "p 1", "p%201", "p+1", "parent", "pre",
      "pre hook cannot reference #", "pre hook cannot reference res", "prehash",
      "preres", "pretpl", "q", "r", "req-a", "req-b",
      "request has multiple HTTP lines", "request has multiple body directives",
      "request has multiple post hooks", "request has multiple pre hooks",
      "request inheritance cycle detected",
      "request must include exactly one HTTP line", "s-sh", "same", "seen", "selfp",
      "sh", "shared", "snap", "status", "t", "token", "touch", "tri1", "tri2", "tri3",
      "twohttp", "twojson", "twopost", "twopre", "u-ub", "ub",
      "undefined variable: shared", "undefined variable: token",
      "unknown parent request", "user", "v", "value", "w">>

Rank(str) == CHOOSE i \in 1..Len(StringOrder) : StringOrder[i] = str

StrLess(a, b) == Rank(a) < Rank(b)

\* sort.SliceStable: the i-th element lands after everything smaller and
\* after every earlier element it does not precede
SortBy(s, Less(_, _)) ==
    LET pos(i) == 1 + Cardinality({j \in 1..Len(s) :
                        Less(s[j], s[i]) \/ (~Less(s[i], s[j]) /\ j < i)})
    IN [p \in 1..Len(s) |-> s[CHOOSE i \in 1..Len(s) : pos(i) = p]]

SortStrings(s) == SortBy(s, StrLess)

\* the elements of a set of strings in ascending order
SortedNames(S) ==
    LET pos(x) == 1 + Cardinality({y \in S : StrLess(y, x)})
    IN [p \in 1..Cardinality(S) |-> CHOOSE x \in S : pos(x) = p]

Reverse(s) == [i \in 1..Len(s) |-> s[Len(s) + 1 - i]]

(***************************************************************************)
(* package diagnostics                                                     *)
(***************************************************************************)
\* a nil *Related
NoRelated == [File |-> "", Line |-> 0, Column |-> 0, Message |-> ""]

Diagnostic(code, msg, file, span, hint, related, flow, req) ==
    [Severity |-> "error", Code |-> code, Message |-> msg, File |-> file,
     Line |-> span.Line, Column |-> span.Column, Hint |-> hint,
     Related |-> related, Flow |-> flow, Request |-> req]

dedupeKey(d) ==
    <<d.Code, d.File, d.Line, d.Column, d.Message,
      d.Related.File, d.Related.Line, d.Related.Column, d.Flow, d.Request>>

DiagLess(a, b) ==
    IF a.File # b.File THEN StrLess(a.File, b.File)
    ELSE IF a.Line # b.Line THEN a.Line < b.Line
    ELSE IF a.Column # b.Column THEN a.Column < b.Column
    ELSE IF a.Code # b.Code THEN StrLess(a.Code, b.Code)
    ELSE IF a.Message # b.Message THEN StrLess(a.Message, b.Message)
    ELSE IF a.Related.File # b.Related.File THEN StrLess(a.Related.File, b.Related.File)
    ELSE IF a.Related.Line # b.Related.Line THEN a.Related.Line < b.Related.Line
    ELSE a.Related.Column < b.Related.Column

\* keeps the first diagnostic of every dedupe key
RECURSIVE DedupeByKey(_)
DedupeByKey(ds) ==
    IF ds = <<>> THEN <<>>
    ELSE LET r == DedupeByKey(SubSeq(ds, 1, Len(ds) - 1))
             d == ds[Len(ds)]
         IN IF \E i \in 1..Len(r) : dedupeKey(r[i]) = dedupeKey(d) THEN r ELSE Append(r, d)

\* SortAndDedupe without its sort
DedupeUnsorted(in) ==
    IF Len(in) = 0 THEN <<>> ELSE DedupeByKey(in)

SortAndDedupe(in) ==
    IF Len(in) = 0 THEN <<>> ELSE DedupeByKey(SortBy(in, DiagLess))

(***************************************************************************)
(* package compiler: the helpers of the passes.                            *)
(***************************************************************************)
builtins == {"env", "uuid", "len", "jsonpath", "regex", "now", "urlencode"}

reservedNames == {"req", "res", "status", "header", "$", "#"}

\* filepath.ToSlash(filepath.Clean(path)) over the paths of the family
normalizePath(path) ==
    CASE path = "./a.pt" -> "a.pt"
      [] path = "./lib.pt" -> "lib.pt"
      [] OTHER -> path

\* the walk of collectExprIdents, before deduplication and sorting
RECURSIVE walkIdents(_)
walkIdents(e) ==
    CASE e.k = "IdentExpr" ->
            IF e.Name \in builtins \/ e.Name \in reservedNames THEN <<>> ELSE <<e.Name>>
      [] e.k = "BinaryExpr" -> walkIdents(e.Left) \o walkIdents(e.Right)
      [] e.k = "FieldExpr" -> walkIdents(e.X)
      [] e.k = "IndexExpr" -> walkIdents(e.X) \o walkIdents(e.Index)
      [] e.k = "ObjectLit" ->
            Concat([i \in 1..Len(e.Pairs) |-> walkIdents(e.Pairs[i].Value)])
      [] OTHER -> <<>>

collectExprIdents(expr) == SortStrings(Uniq(walkIdents(expr)))

collectTemplateVarsInString(raw) ==
    IF raw = "" THEN <<>> ELSE SortStrings(Uniq(templateVarRE(raw)))

RECURSIVE walkTemplateVars(_)
walkTemplateVars(e) ==
    CASE e.k = "StringLit" -> collectTemplateVarsInString(e.Value)
      [] e.k = "BinaryExpr" -> walkTemplateVars(e.Left) \o walkTemplateVars(e.Right)
      [] e.k = "FieldExpr" -> walkTemplateVars(e.X)
      [] e.k = "IndexExpr" -> walkTemplateVars(e.X) \o walkTemplateVars(e.Index)
      [] e.k = "ObjectLit" ->
            Concat([i \in 1..Len(e.Pairs) |-> walkTemplateVars(e.Pairs[i].Value)])
      [] OTHER -> <<>>

collectTemplateVarsInExpr(expr) == SortStrings(Uniq(walkTemplateVars(expr)))

\* what requiredVars adds for one expression: template variables, then identifiers
ExprVars(e) == collectTemplateVarsInExpr(e) \o collectExprIdents(e)

\* a hook statement contributes the assigned VALUE or the expression only
StmtVars(st) ==
    CASE st.k = "AssignStmt" -> ExprVars(st.Value)
      [] st.k = "ExprStmt" -> ExprVars(st.Expr)
      [] OTHER -> <<>>

LineVars(l) ==
    CASE l.kind = "HttpLine" -> pathParamRE(l.Path) \o collectTemplateVarsInString(l.Path)
      [] l.kind \in {"HeaderDirective", "QueryDirective", "AuthDirective",
                     "JsonDirective", "LetStmt"} -> ExprVars(l.Value)
      [] l.kind = "AssertStmt" -> ExprVars(l.Expr)
      [] l.kind = "HookBlock" -> Concat([i \in 1..Len(l.Stmts) |-> StmtVars(l.Stmts[i])])
      [] OTHER -> <<>>

requiredVars(lines) ==
    SortStrings(Uniq(Concat([i \in 1..Len(lines) |-> LineVars(lines[i])])))

reqUsesPathParam(lines, name) ==
    \E i \in 1..Len(lines) :
        lines[i].kind = "HttpLine" /\ Contains(pathParamRE(lines[i].Path), name)

refsExprInHook(block, fn(_)) ==
    \E i \in 1..Len(block.Stmts) :
        LET st == block.Stmts[i]
        IN CASE st.k = "AssignStmt" -> fn(st.Value)
             [] st.k = "ExprStmt" -> fn(st.Expr)
             [] OTHER -> FALSE

\* "res" is a reserved name, which collectExprIdents never returns
isResRef(expr) == Contains(collectExprIdents(expr), "res")

RECURSIVE isHashRef(_)
isHashRef(e) ==
    CASE e.k = "HashExpr" -> TRUE
      [] e.k = "BinaryExpr" -> isHashRef(e.Left) \/ isHashRef(e.Right)
      [] e.k = "FieldExpr" -> isHashRef(e.X)
      [] e.k = "IndexExpr" -> isHashRef(e.X) \/ isHashRef(e.Index)
      [] e.k = "ObjectLit" -> \E i \in 1..Len(e.Pairs) : isHashRef(e.Pairs[i].Value)
      [] OTHER -> FALSE

(***************************************************************************)
(* mergeRequestLines: the effective lines of a request from its parent's   *)
(* effective lines and its own.                                            *)
(***************************************************************************)
EmptyShape ==
    [http |-> <<>>, auth |-> <<>>, json |-> <<>>, pre |-> <<>>, post |-> <<>>,
     headers |-> <<>>, queries |-> <<>>, asserts |-> <<>>, lets |-> <<>>]

\* a keyed slot: a new key is appended, a known key keeps its position
Upsert(slot, l, key) ==
    IF \E i \in 1..Len(slot) : slot[i][1] = key
    THEN [i \in 1..Len(slot) |-> IF slot[i][1] = key THEN <<key, l>> ELSE slot[i]]
    ELSE Append(slot, <<key, l>>)

SlotLines(slot) == [i \in 1..Len(slot) |-> slot[i][2]]

\* one iteration of the loop of applyLines; st = [s, childAsserts]
applyLine(st, l, isChild) ==
    CASE l.kind = "HttpLine" -> [st EXCEPT !.s.http = <<l>>]
      [] l.kind = "AuthDirective" -> [st EXCEPT !.s.auth = <<l>>]
      [] l.kind = "JsonDirective" -> [st EXCEPT !.s.json = <<l>>]
      [] l.kind = "HookBlock" ->
            IF l.Kind = "HookPre" THEN [st EXCEPT !.s.pre = <<l>>]
            ELSE IF l.Kind = "HookPost" THEN [st EXCEPT !.s.post = <<l>>]
            ELSE st
      [] l.kind = "HeaderDirective" -> [st EXCEPT !.s.headers = Upsert(@, l, l.Key)]
      [] l.kind = "QueryDirective" -> [st EXCEPT !.s.queries = Upsert(@, l, l.Key)]
      [] l.kind = "AssertStmt" ->
            IF isChild THEN [st EXCEPT !.childAsserts = Append(@, l)]
            ELSE [st EXCEPT !.s.asserts = Append(@, l)]
      [] l.kind = "LetStmt" -> [st EXCEPT !.s.lets = Upsert(@, l, l.Name)]
      [] OTHER -> st

applyLoop(st, lines, isChild) ==
    ForEach(LAMBDA a, l : applyLine(a, l, isChild), st, lines)

\* the child's assertions are appended to the parent's instead of replacing them
applyLinesKeepingParentAsserts(s, lines, isChild) ==
    LET st == applyLoop([s |-> s, childAsserts |-> <<>>], lines, isChild)
    IN [st.s EXCEPT !.asserts = @ \o st.childAsserts]

applyLines(s, lines, isChild) ==
    LET st == applyLoop([s |-> s, childAsserts |-> <<>>], lines, isChild)
    IN IF isChild /\ Len(st.childAsserts) > 0
       THEN [st.s EXCEPT !.asserts = st.childAsserts]
       ELSE st.s

\* the lines of a shape in the order mergeRequestLines returns them
ShapeLines(s) ==
    s.http \o s.auth \o SlotLines(s.headers) \o SlotLines(s.queries) \o s.json
    \o s.pre \o s.post \o s.asserts \o SlotLines(s.lets)

\* the lines of parent and child one after the other, as written
mergeRequestLinesAsWritten(parent, child) == parent \o child

\* the two arguments taken for each other: the parent's lines override the
\* child's
mergeRequestLinesParentLast(parent, child) ==
    ShapeLines(applyLines(applyLines(EmptyShape, child, FALSE), parent, TRUE))

mergeRequestLines(parent, child) ==
    ShapeLines(applyLines(applyLines(EmptyShape, parent, FALSE), child, TRUE))

(***************************************************************************)
(* The compiler and its passes.  c is the compiler struct; a pass maps it  *)
(* to its value after the pass.  reqs, effReqs are maps keyed by request   *)
(* name; iterating the map reqs visits its keys in the order reqOrder.     *)
(***************************************************************************)
addDiagAt(c, code, msg, file, span, hint) ==
    [c EXCEPT !.diags = Append(@, Diagnostic(code, msg, file, span, hint, NoRelated, "", ""))]

addDiag(c, code, msg, file, span, hint) == addDiagAt(c, code, msg, file, span, hint)

addRelatedDiag(c, code, msg, file, span, relatedFile, related, hint) ==
    [c EXCEPT !.diags = Append(@, Diagnostic(code, msg, file, span, hint,
        [File |-> relatedFile, Line |-> related.Line, Column |-> related.Column,
         Message |-> "first declaration"], "", ""))]

\* ast.Span{}
ZeroSpan == Span(0, 0)

\* a nil *Plan
NoPlan == [nil |-> TRUE]

NewCompiler(entryPath, modules) ==
    [entryPath |-> normalizePath(entryPath), modules |-> modules, ordered |-> <<>>,
     diags |-> <<>>, plan |-> NoPlan, reqs |-> <<>>, effReqs |-> <<>>, globals |-> {}]

\* the orders in which a range loop over the map reqs may visit its keys
MapOrders == {"ascending", "descending"}

RangeReqs(c, mapOrder) ==
    IF mapOrder = "ascending" THEN SortedNames(DOMAIN c.reqs)
    ELSE Reverse(SortedNames(DOMAIN c.reqs))

\* m[k] = v
Put(m, key, v) == (key :> v) @@ m

\* effReqs[name], nil when absent
EffLines(c, name) == IF name \in DOMAIN c.effReqs THEN c.effReqs[name] ELSE <<>>

RECURSIVE dfs(_, _)
RECURSIVE dfsImports(_, _, _)
\* dfs without its report of a module that is still being visited
dfsSilentOnCycle(st, path) ==
    IF st.vis[path] = 1 \/ st.vis[path] = 2 THEN st
    ELSE LET st1 == [st EXCEPT !.vis[path] = 1]
             st2 == dfsImports(st1, path, SelectKind(st.c.modules[path], "ImportStmt"))
         IN [st2 EXCEPT !.vis[path] = 2, !.c.ordered = Append(@, path)]

\* st = [c, vis]
dfs(st, path) ==
    IF st.vis[path] = 1
    THEN [st EXCEPT !.c = addDiag(@, "E_IMPORT_CYCLE", "import cycle detected", path,
                                  ZeroSpan, "remove circular imports")]
    ELSE IF st.vis[path] = 2 THEN st
    ELSE LET st1 == [st EXCEPT !.vis[path] = 1]
             st2 == dfsImports(st1, path, SelectKind(st.c.modules[path], "ImportStmt"))
         IN [st2 EXCEPT !.vis[path] = 2, !.c.ordered = Append(@, path)]

dfsImports(st, path, imports) ==
    IF imports = <<>> THEN st
    ELSE LET imp == Head(imports)
             target == normalizePath(imp.Path)
             st1 == IF target \notin DOMAIN st.c.modules
                    THEN [st EXCEPT !.c = addDiagAt(@, "E_IMPORT_NOT_FOUND",
                              "import not found: " \o imp.Path, path, imp.Span,
                              "load the imported file")]
                    ELSE dfs(st, target)
         IN dfsImports(st1, path, Tail(imports))

passImports(c) ==
    IF c.entryPath \notin DOMAIN c.modules
    THEN addDiag(c, "E_IMPORT_NOT_FOUND", "entry module not found", c.entryPath, ZeroSpan,
                 "ensure the entry file is loaded")
    ELSE LET st == dfs([c |-> c, vis |-> [p \in DOMAIN c.modules |-> 0]], c.entryPath)
         IN [st.c EXCEPT !.ordered = SortStrings(@)]

\* one statement of passSymbols' loop; st = [c, flowNames]
symbolStmt(st, path, stmt) ==
    CASE stmt.kind = "FlowDecl" ->
            LET st1 == IF path # st.c.entryPath
                       THEN [st EXCEPT !.c = addDiagAt(@, "E_IMPORT_FLOW_IN_IMPORTED_FILE",
                                 "flows are not allowed in imported files", path, stmt.Span,
                                 "move flow declarations to the entry file")]
                       ELSE st
            IN IF stmt.Name \in DOMAIN st1.flowNames
               THEN [st1 EXCEPT !.c = addRelatedDiag(@, "E_SEM_DUPLICATE_FLOW_NAME",
                         "duplicate flow name", path, stmt.Span, st.c.entryPath,
                         st1.flowNames[stmt.Name], "rename one of the flow declarations")]
               ELSE [st1 EXCEPT !.flowNames = Put(@, stmt.Name, stmt.Span)]
      [] stmt.kind = "ReqDecl" ->
            IF stmt.Name \in DOMAIN st.c.reqs
            THEN [st EXCEPT !.c = addRelatedDiag(@, "E_SEM_DUPLICATE_REQ_NAME",
                      "duplicate request name", path, stmt.Span,
                      st.c.reqs[stmt.Name].File, st.c.reqs[stmt.Name].Decl.Span,
                      "rename one of the request declarations")]
            ELSE [st EXCEPT !.c.reqs = Put(@, stmt.Name, [Decl |-> stmt, File |-> path])]
      [] stmt.kind = "LetStmt" -> [st EXCEPT !.c.globals = @ \cup {stmt.Name}]
      [] OTHER -> st

symbolStmts(st, path, stmts) ==
    ForEach(LAMBDA a, stmt : symbolStmt(a, path, stmt), st, stmts)

symbolModules(st, paths) ==
    ForEach(LAMBDA a, path : symbolStmts(a, path, a.c.modules[path]), st, paths)

\* one request of the second loop of passSymbols
unknownParent(c, name) ==
    LET req == c.reqs[name]
    IN IF req.Decl.Parent # NoName /\ req.Decl.Parent \notin DOMAIN c.reqs
       THEN addDiagAt(c, "E_SEM_UNKNOWN_PARENT_REQ", "unknown parent request",
                      req.File, req.Decl.Span,
                      "reference an existing request as parent")
       ELSE c

unknownParents(c, names) == ForEach(unknownParent, c, names)

passSymbols(c, mapOrder) ==
    LET st == symbolModules([c |-> [c EXCEPT !.reqs = <<>>, !.globals = {}],
                             flowNames |-> <<>>], c.ordered)
    IN unknownParents(st.c, RangeReqs(st.c, mapOrder))

\* st = [c, state]; the result is [st, lines]
RECURSIVE resolve(_, _)
\* resolve without its report of a request that is still being resolved
resolveSilentOnCycle(st, name) ==
    LET state == IF name \in DOMAIN st.state THEN st.state[name] ELSE 0
    IN IF name \in DOMAIN st.c.effReqs THEN [st |-> st, lines |-> st.c.effReqs[name]]
       ELSE IF state = 1 THEN [st |-> st, lines |-> <<>>]
       ELSE IF state = 2 THEN [st |-> st, lines |-> EffLines(st.c, name)]
       ELSE IF name \notin DOMAIN st.c.reqs THEN [st |-> st, lines |-> <<>>]
       ELSE LET req == st.c.reqs[name]
                st1 == [st EXCEPT !.state = Put(@, name, 1)]
                pr == IF req.Decl.Parent # NoName THEN resolve(st1, req.Decl.Parent)
                      ELSE [st |-> st1, lines |-> <<>>]
                merged == mergeRequestLines(pr.lines, req.Decl.Lines)
            IN [st |-> [pr.st EXCEPT !.c.effReqs = Put(@, name, merged),
                                     !.state = Put(@, name, 2)],
                lines |-> merged]

resolve(st, name) ==
    LET state == IF name \in DOMAIN st.state THEN st.state[name] ELSE 0
    IN IF name \in DOMAIN st.c.effReqs THEN [st |-> st, lines |-> st.c.effReqs[name]]
       ELSE IF state = 1
       THEN [st |-> IF name \in DOMAIN st.c.reqs
                    THEN [st EXCEPT !.c = addDiagAt(@, "E_SEM_INHERITANCE_CYCLE",
                              "request inheritance cycle detected", st.c.reqs[name].File,
                              st.c.reqs[name].Decl.Span, "remove circular parent chains")]
                    ELSE st,
             lines |-> <<>>]
       ELSE IF state = 2 THEN [st |-> st, lines |-> EffLines(st.c, name)]
       ELSE IF name \notin DOMAIN st.c.reqs THEN [st |-> st, lines |-> <<>>]
       ELSE LET req == st.c.reqs[name]
                st1 == [st EXCEPT !.state = Put(@, name, 1)]
                pr == IF req.Decl.Parent # NoName THEN resolve(st1, req.Decl.Parent)
                      ELSE [st |-> st1, lines |-> <<>>]
                merged == mergeRequestLines(pr.lines, req.Decl.Lines)
            IN [st |-> [pr.st EXCEPT !.c.effReqs = Put(@, name, merged),
                                     !.state = Put(@, name, 2)],
                lines |-> merged]

resolveAll(st, names) == ForEach(LAMBDA a, name : resolve(a, name).st, st, names)

passRequestInheritance(c) ==
    resolveAll([c |-> [c EXCEPT !.effReqs = <<>>], state |-> <<>>],
               SortedNames(DOMAIN c.reqs)).c

\* the diagnostics of one hook statement in passRequests
assignToResStmt(c, req, st) ==
    IF st.k = "AssignStmt" /\ st.Target.Root.Kind = "LValueRes"
    THEN addDiagAt(c, "E_SEM_ASSIGN_TO_RES_FORBIDDEN",
                   "assignment to res is forbidden", req.File, st.Span,
                   "assign to req or a variable instead")
    ELSE c

assignToRes(c, req, stmts) ==
    ForEach(LAMBDA a, st : assignToResStmt(a, req, st), c, stmts)

\* the body of the loop over the effective lines in passRequests
requestLine(c, req, l) ==
    LET pre == l.kind = "HookBlock" /\ l.Kind = "HookPre"
        c1 == IF pre /\ refsExprInHook(l, isResRef)
              THEN addDiagAt(c, "E_SEM_PRE_HOOK_REFERENCES_RES",
                             "pre hook cannot reference res", req.File, l.Span,
                             "use req or flow variables in pre hook")
              ELSE c
        c2 == IF pre /\ refsExprInHook(l, isHashRef)
              THEN addDiagAt(c1, "E_SEM_PRE_HOOK_REFERENCES_RES",
                             "pre hook cannot reference #", req.File, l.Span,
                             "move response access to post hook")
              ELSE c1
    IN IF l.kind = "HookBlock" THEN assignToRes(c2, req, l.Stmts) ELSE c2

requestLines(c, req, lines) ==
    ForEach(LAMBDA a, l : requestLine(a, req, l), c, lines)

CountIf(c, cond, code, msg, req, hint) ==
    IF cond THEN addDiagAt(c, code, msg, req.File, req.Decl.Span, hint) ELSE c

\* passRequests without its check for a missing HTTP line
checkRequestAllowingNoHTTP(c, req) ==
    LET lines == EffLines(c, req.Decl.Name)
        httpCount == Len(SelectKind(lines, "HttpLine"))
        jsonCount == Len(SelectKind(lines, "JsonDirective"))
        hooks == SelectKind(lines, "HookBlock")
        preHook == Len(SelectSeq(hooks, LAMBDA h : h.Kind = "HookPre"))
        postHook == Len(SelectSeq(hooks, LAMBDA h : h.Kind = "HookPost"))
        c0 == requestLines(c, req, lines)
        c2 == CountIf(c0, httpCount > 1, "E_SEM_REQ_MULTIPLE_HTTP_LINES",
                      "request has multiple HTTP lines", req, "keep only one HTTP line")
        c3 == CountIf(c2, preHook > 1, "E_SEM_DUPLICATE_PRE_HOOK",
                      "request has multiple pre hooks", req, "keep only one pre hook")
        c4 == CountIf(c3, postHook > 1, "E_SEM_DUPLICATE_POST_HOOK",
                      "request has multiple post hooks", req, "keep only one post hook")
    IN CountIf(c4, jsonCount > 1, "E_SEM_MULTIPLE_BODIES",
               "request has multiple body directives", req,
               "keep only one json body directive")

checkRequest(c, req) ==
    LET lines == EffLines(c, req.Decl.Name)
        httpCount == Len(SelectKind(lines, "HttpLine"))
        jsonCount == Len(SelectKind(lines, "JsonDirective"))
        hooks == SelectKind(lines, "HookBlock")
        preHook == Len(SelectSeq(hooks, LAMBDA h : h.Kind = "HookPre"))
        postHook == Len(SelectSeq(hooks, LAMBDA h : h.Kind = "HookPost"))
        c0 == requestLines(c, req, lines)
        c1 == CountIf(c0, httpCount = 0, "E_SEM_REQ_MISSING_HTTP_LINE",
                      "request must include exactly one HTTP line", req,
                      "add GET/POST/etc line")
        c2 == CountIf(c1, httpCount > 1, "E_SEM_REQ_MULTIPLE_HTTP_LINES",
                      "request has multiple HTTP lines", req, "keep only one HTTP line")
        c3 == CountIf(c2, preHook > 1, "E_SEM_DUPLICATE_PRE_HOOK",
                      "request has multiple pre hooks", req, "keep only one pre hook")
        c4 == CountIf(c3, postHook > 1, "E_SEM_DUPLICATE_POST_HOOK",
                      "request has multiple post hooks", req, "keep only one post hook")
    IN CountIf(c4, jsonCount > 1, "E_SEM_MULTIPLE_BODIES",
               "request has multiple body directives", req,
               "keep only one json body directive")

checkRequests(c, names) ==
    ForEach(LAMBDA a, name : checkRequest(a, a.reqs[name]), c, names)

passRequests(c, mapOrder) == checkRequests(c, RangeReqs(c, mapOrder))

\* the undefined required variables of one step, as diagnostics
requiredVar(st, req, lines, name) ==
    LET code == IF reqUsesPathParam(lines, name) THEN "E_SEM_MISSING_PATH_PARAM_VAR"
                ELSE "E_SEM_UNDEFINED_VARIABLE"
    IN IF name \notin st.defined
       THEN [st EXCEPT !.c = addDiagAt(@, code, "undefined variable: " \o name,
                 req.File, req.Decl.Span,
                 "define variable globally, in flow prelude, or in prior request lets")]
       ELSE st

requiredCheck(st, req, lines, required) ==
    ForEach(LAMBDA a, name : requiredVar(a, req, lines, name), st, required)

Binding(step) == IF step.Alias # NoName THEN step.Alias ELSE step.ReqName

\* one step of the chain in passFlows; st = [c, bindings, defined]
flowStep(st, step) ==
    IF step.ReqName \notin DOMAIN st.c.reqs
    THEN [st EXCEPT !.c = addDiagAt(@, "E_SEM_UNKNOWN_REQ_IN_FLOW",
              "unknown request in flow: " \o step.ReqName, st.c.entryPath, step.Span,
              "reference an existing request")]
    ELSE LET req == st.c.reqs[step.ReqName]
             binding == Binding(step)
             lines == EffLines(st.c, step.ReqName)
             st1 == IF binding \in st.bindings
                    THEN [st EXCEPT !.c = addDiagAt(@, "E_SEM_DUPLICATE_FLOW_BINDING",
                              "duplicate flow binding: " \o binding, st.c.entryPath,
                              step.Span, "use unique aliases in the chain")]
                    ELSE [st EXCEPT !.bindings = @ \cup {binding}]
             st2 == requiredCheck(st1, req, lines, requiredVars(lines))
             lets == SelectKind(lines, "LetStmt")
         IN [st2 EXCEPT !.defined = @ \cup {lets[i].Name : i \in 1..Len(lets)}]

flowSteps(st, chain) == ForEach(flowStep, st, chain)

flowAssertIdent(st, as, ident) ==
    IF ident \in st.defined \/ ident \in st.bindings THEN st
    ELSE [st EXCEPT !.c = addDiagAt(@, "E_SEM_UNKNOWN_FLOW_BINDING",
              "unknown flow binding or variable: " \o ident,
              st.c.entryPath, as.Span,
              "use a binding from the chain or a defined variable")]

flowAssertIdents(st, as, idents) ==
    ForEach(LAMBDA a, ident : flowAssertIdent(a, as, ident), st, idents)

flowAsserts(st, asserts) ==
    ForEach(LAMBDA a, as : flowAssertIdents(a, as, collectExprIdents(as.Expr)), st, asserts)

checkFlow(c, flow) ==
    IF Len(flow.Chain) = 0
    THEN addDiagAt(c, "E_SEM_FLOW_MISSING_CHAIN", "flow must contain a chain", c.entryPath,
                   flow.Span, "add a chain line using ->")
    ELSE LET st0 == [c |-> c, bindings |-> {},
                     defined |-> c.globals
                         \cup {flow.Prelude[i].Name : i \in 1..Len(flow.Prelude)}]
         IN flowAsserts(flowSteps(st0, flow.Chain), flow.Asserts).c

checkFlows(c, flows) == ForEach(checkFlow, c, flows)

passFlows(c) == checkFlows(c, SelectKind(c.modules[c.entryPath], "FlowDecl"))

(***************************************************************************)
(* Plan synthesis.                                                         *)
(***************************************************************************)
PlanRequest(c, name) ==
    LET lines == EffLines(c, name)
        https == SelectKind(lines, "HttpLine")
    IN [Name |-> name, Parent |-> c.reqs[name].Decl.Parent, Decl |-> c.reqs[name].Decl,
        Lines |-> lines,
        \* the first HTTP line of the effective lines, nil when there is none
        HTTP |-> IF https = <<>> THEN <<>> ELSE <<Head(https)>>]

PlanStep(step) == [Request |-> step.ReqName, Binding |-> Binding(step)]

PlanFlow(flow) ==
    [Name |-> flow.Name, Span |-> flow.Span, Decl |-> flow,
     Lets |-> [i \in 1..Len(flow.Prelude) |-> flow.Prelude[i].Name],
     Steps |-> [i \in 1..Len(flow.Chain) |-> PlanStep(flow.Chain[i])],
     Check |-> [i \in 1..Len(flow.Asserts) |-> flow.Asserts[i].Expr]]

NameLess(a, b) == StrLess(a.Name, b.Name)

\* the flows stay in the order of their declarations
PlanFlowsAsDeclared(flows) == flows

PlanFlowsSorted(flows) == SortBy(flows, NameLess)

buildPlan(c, mapOrder) ==
    LET stmts == c.modules[c.entryPath]
        names == RangeReqs(c, mapOrder)
        flows == SelectKind(stmts, "FlowDecl")
    IN [c EXCEPT !.plan =
          [nil |-> FALSE, EntryPath |-> c.entryPath,
           Globals |-> SelectKind(stmts, "LetStmt"),
           Requests |-> SortBy([i \in 1..Len(names) |-> PlanRequest(c, names[i])], NameLess),
           Flows |-> PlanFlowsSorted([i \in 1..Len(flows) |-> PlanFlow(flows[i])])]]

\* the end of run without its early return: the plan is built whatever the
\* passes reported
planAlways(c, mapOrder) == buildPlan(c, mapOrder)

\* the end of run, after the five passes
planIfClean(c, mapOrder) ==
    IF Len(c.diags) > 0 THEN c ELSE buildPlan(c, mapOrder)

\* what Compile returns once run is over: (plan, diagnostics)
CompileResult(c) ==
    IF Len(c.diags) > 0
    THEN [plan |-> NoPlan, diags |-> SortAndDedupe(c.diags)]
    ELSE [plan |-> c.plan, diags |-> <<>>]

(***************************************************************************)
(* package runtime: values.  A Go value of type any is a tagged record;    *)
(* a map[string]any is a reference into the heap, so that two variables    *)
(* holding the same map see each other's writes.                           *)
(***************************************************************************)
VNull == [t |-> "null", v |-> "", r |-> 0]
VStr(str) == [t |-> "str", v |-> str, r |-> 0]
VNum(n) == [t |-> "num", v |-> "", r |-> n]
VBool(b) == [t |-> "bool", v |-> "", r |-> IF b THEN 1 ELSE 0]
\* the map stored at heap[a]
VRef(a) == [t |-> "map", v |-> "", r |-> a]
\* a nil map[string]any: reads as an empty map, marshals as null
VNilMap == [t |-> "nilmap", v |-> "", r |-> 0]

\* map[string]any{...}: a new map on the heap
Alloc(heap, m) == [heap |-> Append(heap, m), ref |-> VRef(Len(heap) + 1)]

\* heap[ref][key] = v
Store(heap, ref, key, v) == [heap EXCEPT ![ref.r] = Put(@, key, v)]

\* strconv.ParseFloat over the number literals of the family
ParseFloat(raw) ==
    CASE raw = "200" -> 200
      [] raw = "201" -> 201
      [] OTHER -> 0

\* strconv.FormatFloat as fmt.Sprint prints a float64, over the same numbers
FormatFloat(n) ==
    CASE n = 200 -> "200"
      [] n = 201 -> "201"
      [] OTHER -> "0"

\* fmt.Sprint(v)
Sprint(v) ==
    CASE v.t = "str" -> v.v
      [] v.t = "num" -> FormatFloat(v.r)
      [] v.t = "bool" -> IF v.r = 1 THEN "true" ELSE "false"
      [] v.t = "null" -> "<nil>"
      [] OTHER -> "map[]"

\* url.PathEscape over the values of the family
PathEscape(str) == IF str = "p 1" THEN "p%201" ELSE str

\* url.QueryEscape over the values of the family
QueryEscape(str) == IF str = "p 1" THEN "p+1" ELSE str

\* the value as encoding/json marshals it: maps by content, a nil map as null
RECURSIVE Marshal(_, _)
Marshal(v, heap) ==
    IF v.t = "map"
    THEN [t |-> "map", m |-> [key \in DOMAIN heap[v.r] |-> Marshal(heap[v.r][key], heap)]]
    ELSE IF v.t = "nilmap" THEN VNull
    ELSE v

deepEqual(a, b, heap) == Marshal(a, heap) = Marshal(b, heap)

\* asBool: (value, error)
asBool(v) ==
    IF v.t = "bool" THEN [ok |-> v.r = 1, err |-> ""]
    ELSE [ok |-> FALSE, err |-> "expected boolean"]

\* copyMap: a new map with the same values, references included
copyMap(in) == [key \in DOMAIN in |-> in[key]]

RECURSIVE JoinStr(_)
JoinStr(ss) == IF ss = <<>> THEN "" ELSE Head(ss) \o JoinStr(Tail(ss))

\* the text of a piece as it stands in the string
PieceText(x) ==
    CASE x.p = "param" -> ":" \o x.s
      [] x.p = "tpl" -> "{{" \o x.s \o "}}"
      [] OTHER -> x.s

\* interpolateString over the pieces of a text: (pieces, error)
interpolatePieces(ps, vars) ==
    LET missing == {i \in 1..Len(ps) : ps[i].p = "tpl" /\ ps[i].s \notin DOMAIN vars}
    IN IF missing # {}
       THEN [err |-> "missing variable " \o ps[CHOOSE i \in missing : \A j \in missing : i <= j].s
                       \o " for template placeholder",
             out |-> <<>>]
       ELSE [err |-> "",
             out |-> [i \in 1..Len(ps) |->
                        IF ps[i].p = "tpl" THEN Lit(Sprint(vars[ps[i].s])) ELSE ps[i]]]

interpolateString(in, vars) ==
    LET r == interpolatePieces(Pieces(in), vars)
    IN [err |-> r.err,
        out |-> JoinStr([i \in 1..Len(r.out) |-> PieceText(r.out[i])])]

\* interpolateValue: strings are rendered, maps are rebuilt entry by entry
\* (keys ascending), other values pass
RECURSIVE interpolateValue(_, _, _)
RECURSIVE interpolateEntries(_, _, _, _, _)
interpolateValue(v, vars, heap) ==
    IF v.t = "str"
    THEN LET r == interpolateString(v.v, vars)
         IN [err |-> r.err, val |-> VStr(r.out), heap |-> heap]
    ELSE IF v.t = "map"
    THEN LET r == interpolateEntries(SortedNames(DOMAIN heap[v.r]), heap[v.r], vars, heap, <<>>)
             a == Alloc(r.heap, r.out)
         IN IF r.err # "" THEN [err |-> r.err, val |-> VNull, heap |-> heap]
            ELSE [err |-> "", val |-> a.ref, heap |-> a.heap]
    ELSE [err |-> "", val |-> v, heap |-> heap]

interpolateEntries(keys, src, vars, heap, out) ==
    IF keys = <<>> THEN [err |-> "", heap |-> heap, out |-> out]
    ELSE LET r == interpolateValue(src[Head(keys)], vars, heap)
         IN IF r.err # "" THEN [err |-> r.err, heap |-> heap, out |-> out]
            ELSE interpolateEntries(Tail(keys), src, vars, r.heap, Put(out, Head(keys), r.val))

\* renderPath after interpolateString, over the pieces of the path
renderPath(ps, vars) ==
    LET missing == {i \in 1..Len(ps) : ps[i].p = "param" /\ ps[i].s \notin DOMAIN vars}
    IN IF missing # {}
       THEN [err |-> "missing variable " \o ps[CHOOSE i \in missing : \A j \in missing : i <= j].s
                       \o " for path param",
             out |-> ""]
       ELSE [err |-> "",
             out |-> JoinStr([i \in 1..Len(ps) |->
                        IF ps[i].p = "param" THEN PathEscape(Sprint(vars[ps[i].s]))
                        ELSE PieceText(ps[i])])]

\* plan.Base is nil and no override is given: combineURL returns the path
combineURL(base, path) == IF base = "" THEN path ELSE base \o path

\* applyQuery: the query map, keys ascending, appended to the URL
applyQuery(urlStr, q) ==
    IF DOMAIN q = {} THEN urlStr
    ELSE LET keys == SortedNames(DOMAIN q)
             pair(i) == (IF i > 1 THEN "&" ELSE "") \o keys[i] \o "=" \o QueryEscape(Sprint(q[keys[i]]))
         IN urlStr \o "?" \o JoinStr([i \in 1..Len(keys) |-> pair(i)])

httpMethodString(m) ==
    CASE m = "MethodPost" -> "POST"
      [] m = "MethodPut" -> "PUT"
      [] m = "MethodDelete" -> "DELETE"
      [] OTHER -> "GET"

stepDisplayName(step) ==
    IF step.Binding = "" \/ step.Binding = step.Request THEN step.Request
    ELSE step.Request \o ":" \o step.Binding

runtimeDiag(code, message, file, span, hint, flow, req) ==
    Diagnostic(code, message, file, span, hint, NoRelated, flow, req)

(***************************************************************************)
(* evalExpr.  rctx is the requestContext; the heap is threaded through     *)
(* because object literals and binding views allocate maps.  The result    *)
(* is (value, error) and the heap after the evaluation.                    *)
(***************************************************************************)
RequestContext(reqObj, flowVars, resJSON, status, headers, flowViews) ==
    [reqObj |-> reqObj, flowVars |-> flowVars, resJSON |-> resJSON, status |-> status,
     headers |-> headers, flowViews |-> flowViews]

Ok(v, heap) == [err |-> "", val |-> v, heap |-> heap]

Err(msg, heap) == [err |-> msg, val |-> VNull, heap |-> heap]

\* obj[key] of a map value; a missing key and a nil map read as nil
MapGet(x, key, heap) ==
    IF x.t = "map" /\ key \in DOMAIN heap[x.r] THEN heap[x.r][key] ELSE VNull

IsMap(x) == x.t \in {"map", "nilmap"}

\* the object an identifier that names a binding evaluates to
BindingObject(b, heap) ==
    LET a == Alloc(heap, [res |-> b.Res, req |-> b.Req,
                          status |-> VNum(b.Status), header |-> b.Header])
    IN Ok(a.ref, a.heap)

\* the identifier looked up in the bindings first and in the flow variables
\* after them
resolveIdentBindingFirst(name, rctx, heap) ==
    IF name \in DOMAIN rctx.flowViews THEN BindingObject(rctx.flowViews[name], heap)
    ELSE IF name \in DOMAIN rctx.flowVars THEN Ok(rctx.flowVars[name], heap)
    ELSE Err("undefined identifier " \o name, heap)

\* an identifier that is no context name: a flow variable, or else a binding
resolveIdent(name, rctx, heap) ==
    IF name \in DOMAIN rctx.flowVars THEN Ok(rctx.flowVars[name], heap)
    ELSE IF name \in DOMAIN rctx.flowViews THEN BindingObject(rctx.flowViews[name], heap)
    ELSE Err("undefined identifier " \o name, heap)

RECURSIVE evalExpr(_, _, _)
RECURSIVE evalPairs(_, _, _, _)
evalExpr(e, rctx, heap) ==
    CASE e.k = "StringLit" -> Ok(VStr(e.Value), heap)
      [] e.k = "NumberLit" -> Ok(VNum(ParseFloat(e.Raw)), heap)
      [] e.k = "ObjectLit" -> evalPairs(e.Pairs, rctx, heap, <<>>)
      [] e.k = "HashExpr" -> Ok(rctx.resJSON, heap)
      [] e.k = "IdentExpr" ->
            CASE e.Name = "status" -> Ok(VNum(rctx.status), heap)
              [] e.Name = "header" -> Ok(rctx.headers, heap)
              [] e.Name = "req" -> Ok(rctx.reqObj, heap)
              [] e.Name = "res" -> Ok(rctx.resJSON, heap)
              [] OTHER -> resolveIdent(e.Name, rctx, heap)
      [] e.k = "BinaryExpr" ->
            LET l == evalExpr(e.Left, rctx, heap)
                r == evalExpr(e.Right, rctx, l.heap)
            IN IF l.err # "" THEN l
               ELSE IF r.err # "" THEN r
               ELSE IF e.Op = "==" THEN Ok(VBool(deepEqual(l.val, r.val, r.heap)), r.heap)
               ELSE IF e.Op = "!=" THEN Ok(VBool(~deepEqual(l.val, r.val, r.heap)), r.heap)
               ELSE Err("expected number", r.heap)
      [] e.k = "FieldExpr" ->
            LET x == evalExpr(e.X, rctx, heap)
            IN IF x.err # "" THEN x
               ELSE IF ~IsMap(x.val) THEN Err("field access on non-object", x.heap)
               ELSE Ok(MapGet(x.val, e.Name, x.heap), x.heap)
      [] e.k = "IndexExpr" ->
            LET x == evalExpr(e.X, rctx, heap)
                idx == evalExpr(e.Index, rctx, x.heap)
            IN IF x.err # "" THEN x
               ELSE IF idx.err # "" THEN idx
               ELSE IF ~IsMap(x.val) THEN Err("index access on unsupported type", idx.heap)
               ELSE Ok(MapGet(x.val, Sprint(idx.val), idx.heap), idx.heap)
      [] OTHER -> Ok(VNull, heap)

evalPairs(pairs, rctx, heap, obj) ==
    IF pairs = <<>>
    THEN LET a == Alloc(heap, obj) IN Ok(a.ref, a.heap)
    ELSE LET v == evalExpr(Head(pairs).Value, rctx, heap)
         IN IF v.err # "" THEN v
            ELSE evalPairs(Tail(pairs), rctx, v.heap, Put(obj, Head(pairs).Key, v.val))

(***************************************************************************)
(* Hooks.  flowVars is a Go map shared with the caller, so a hook returns  *)
(* the map after its writes next to the heap.                              *)
(***************************************************************************)
Done(flowVars, heap) == [err |-> "", flowVars |-> flowVars, heap |-> heap]

Fail(msg, flowVars, heap) == [err |-> msg, flowVars |-> flowVars, heap |-> heap]

\* the walk of assignLValue along the postfix; current is the value reached
RECURSIVE assignPostfix(_, _, _, _, _)
assignPostfix(postfix, current, value, rctx, heap) ==
    IF postfix = <<>> THEN Done(rctx.flowVars, heap)
    ELSE LET pf == Head(postfix)
             last == Len(postfix) = 1
             idx == IF pf.Kind = "LValueIndex" THEN evalExpr(pf.Index, rctx, heap)
                    ELSE Ok(VStr(pf.Name), heap)
             key == Sprint(idx.val)
             obj == heap[current.r]
             fresh == Alloc(idx.heap, <<>>)
         IN IF current.t # "map"
            THEN Fail(IF pf.Kind = "LValueField" THEN "field assignment on non-object"
                      ELSE "index assignment on non-object", rctx.flowVars, heap)
            ELSE IF idx.err # "" THEN Fail(idx.err, rctx.flowVars, idx.heap)
            ELSE IF last THEN Done(rctx.flowVars, Store(idx.heap, current, key, value))
            ELSE IF key \in DOMAIN obj
            THEN assignPostfix(Tail(postfix), obj[key], value, rctx, idx.heap)
            ELSE assignPostfix(Tail(postfix), fresh.ref, value, rctx,
                               Store(fresh.heap, current, key, fresh.ref))

assignLValue(target, value, rctx, heap) ==
    IF target.Root.Kind = "LValueIdent" /\ Len(target.Postfix) = 0
    THEN Done(Put(rctx.flowVars, target.Root.Name, value), heap)
    ELSE IF target.Root.Kind = "LValueReq"
    THEN assignPostfix(target.Postfix, rctx.reqObj, value, rctx, heap)
    ELSE IF target.Root.Kind = "LValueIdent"
    THEN assignPostfix(target.Postfix,
                       IF target.Root.Name \in DOMAIN rctx.flowVars
                       THEN rctx.flowVars[target.Root.Name] ELSE VNull,
                       value, rctx, heap)
    ELSE Fail("unsupported assignment target", rctx.flowVars, heap)

RECURSIVE execStmts(_, _, _)
execStmts(stmts, rctx, heap) ==
    IF stmts = <<>> THEN Done(rctx.flowVars, heap)
    ELSE LET st == Head(stmts)
             v == evalExpr(IF st.k = "AssignStmt" THEN st.Value ELSE st.Expr, rctx, heap)
             a == IF st.k = "AssignStmt" THEN assignLValue(st.Target, v.val, rctx, v.heap)
                  ELSE Done(rctx.flowVars, v.heap)
         IN IF v.err # "" THEN Fail(v.err, rctx.flowVars, v.heap)
            ELSE IF a.err # "" THEN a
            ELSE execStmts(Tail(stmts), [rctx EXCEPT !.flowVars = a.flowVars], a.heap)

execHook(block, rctx, heap) == execStmts(block.Stmts, rctx, heap)

(***************************************************************************)
(* resolveLines.                                                           *)
(***************************************************************************)
\* requests[name], the map Execute builds from plan.Requests
RequestNames(plan) == {plan.Requests[i].Name : i \in 1..Len(plan.Requests)}

RequestByName(plan, name) ==
    plan.Requests[CHOOSE i \in 1..Len(plan.Requests) : plan.Requests[i].Name = name]

\* build: the declared lines of the ancestors, eldest first, then the own ones
RECURSIVE build(_, _, _)
build(name, plan, seen) ==
    IF name \notin RequestNames(plan) \/ name \in seen THEN <<>>
    ELSE LET r == RequestByName(plan, name)
         IN (IF r.Parent # NoName THEN build(r.Parent, plan, seen \cup {name}) ELSE <<>>)
            \o r.Decl.Lines

\* resolveLines without the use of the plan's effective lines: the declared
\* lines of the inheritance chain, one declaration after the other
resolveLinesFromDecls(req, plan) ==
    IF req.Parent = NoName THEN req.Decl.Lines ELSE build(req.Name, plan, {})

resolveLines(req, plan) ==
    IF Len(req.Lines) > 0 THEN req.Lines
    ELSE IF req.Parent = NoName THEN req.Decl.Lines
    ELSE build(req.Name, plan, {})

(***************************************************************************)
(* The loops of executeRequest.  Each returns the diagnostic it stopped    *)
(* with (none when it ran to its end), flowVars and the heap after it, and *)
(* the lines it executed.  at = [file, flow, req] locates diagnostics.     *)
(***************************************************************************)
Ran(kind, line) == [kind |-> kind, line |-> line.Span.Line]

Through(flowVars, heap, events) ==
    [diag |-> <<>>, flowVars |-> flowVars, heap |-> heap, events |-> events]

Stopped(d, flowVars, heap, events) ==
    [diag |-> <<d>>, flowVars |-> flowVars, heap |-> heap, events |-> events]

StepDiag(code, message, span, hint, at) ==
    runtimeDiag(code, message, at.file, span, hint, at.flow, at.req)

HookWord(kind) == IF kind = "HookPre" THEN "pre" ELSE "post"

\* the loop over the hook blocks of one kind
RECURSIVE hookLoop(_, _, _, _, _, _)
hookLoop(lines, kind, rctx, heap, events, at) ==
    IF lines = <<>> THEN Through(rctx.flowVars, heap, events)
    ELSE LET h == Head(lines)
             r == execHook(h, rctx, heap)
             ev == Append(events, Ran(HookWord(kind), h))
         IN IF h.kind # "HookBlock" \/ h.Kind # kind
            THEN hookLoop(Tail(lines), kind, rctx, heap, events, at)
            ELSE IF r.err # ""
            THEN Stopped(StepDiag("E_RUNTIME_HOOK", HookWord(kind) \o " hook execution failed",
                                  h.Span, r.err, at), r.flowVars, r.heap, ev)
            ELSE hookLoop(Tail(lines), kind, [rctx EXCEPT !.flowVars = r.flowVars],
                          r.heap, ev, at)

DirectiveWord(l) ==
    CASE l.kind = "HeaderDirective" -> "header"
      [] l.kind = "QueryDirective" -> "query"
      [] l.kind = "AuthDirective" -> "auth"
      [] OTHER -> "json"

\* what one directive writes into the request object
applyDirective(l, v, reqObj, heap) ==
    CASE l.kind = "HeaderDirective" ->
            Store(heap, heap[reqObj.r]["header"], l.Key, VStr(Sprint(v)))
      [] l.kind = "QueryDirective" ->
            Store(heap, heap[reqObj.r]["query"], l.Key, VStr(Sprint(v)))
      [] l.kind = "AuthDirective" ->
            IF l.Scheme = "AuthBearer"
            THEN Store(heap, heap[reqObj.r]["header"], "Authorization",
                       VStr("Bearer " \o Sprint(v)))
            ELSE heap
      [] OTHER -> Store(heap, reqObj, "json", v)

\* the loop over header, query, auth and json directives
RECURSIVE directiveLoop(_, _, _, _, _)
directiveLoop(lines, rctx, heap, events, at) ==
    IF lines = <<>> THEN Through(rctx.flowVars, heap, events)
    ELSE LET l == Head(lines)
             v == evalExpr(l.Value, rctx, heap)
             w == interpolateValue(v.val, rctx.flowVars, v.heap)
             ev == Append(events, Ran("directive", l))
         IN IF l.kind \notin {"HeaderDirective", "QueryDirective", "AuthDirective",
                              "JsonDirective"}
            THEN directiveLoop(Tail(lines), rctx, heap, events, at)
            ELSE IF v.err # ""
            THEN Stopped(StepDiag("E_RUNTIME_EXPRESSION",
                             "failed to evaluate " \o DirectiveWord(l) \o " directive",
                             l.Span, v.err, at), rctx.flowVars, v.heap, ev)
            ELSE IF w.err # ""
            THEN Stopped(StepDiag("E_RUNTIME_MISSING_VARIABLE",
                             "failed to render " \o DirectiveWord(l) \o " directive",
                             l.Span, w.err, at), rctx.flowVars, w.heap, ev)
            ELSE directiveLoop(Tail(lines), rctx,
                               applyDirective(l, w.val, rctx.reqObj, w.heap), ev, at)

\* the loop over assertions and lets
RECURSIVE checkLoop(_, _, _, _, _)
checkLoop(lines, rctx, heap, events, at) ==
    IF lines = <<>> THEN Through(rctx.flowVars, heap, events)
    ELSE LET l == Head(lines)
             v == evalExpr(IF l.kind = "AssertStmt" THEN l.Expr ELSE l.Value, rctx, heap)
             b == asBool(v.val)
         IN IF l.kind = "AssertStmt"
            THEN IF v.err # ""
                 THEN Stopped(StepDiag("E_RUNTIME_EXPRESSION",
                                  "failed to evaluate request assertion", l.Span, v.err, at),
                              rctx.flowVars, v.heap, Append(events, Ran("assert", l)))
                 ELSE IF b.err # "" \/ ~b.ok
                 THEN Stopped(StepDiag("E_ASSERT_EXPECTED_TRUE", "request assertion failed",
                                  l.Span,
                                  IF b.err # "" THEN b.err ELSE "assertion must evaluate to true",
                                  at),
                              rctx.flowVars, v.heap, Append(events, Ran("assert", l)))
                 ELSE checkLoop(Tail(lines), rctx, v.heap,
                                Append(events, Ran("assert", l)), at)
            ELSE IF l.kind = "LetStmt"
            THEN IF v.err # ""
                 THEN Stopped(StepDiag("E_RUNTIME_EXPRESSION",
                                  "failed to evaluate request let", l.Span, v.err, at),
                              rctx.flowVars, v.heap, Append(events, Ran("let", l)))
                 ELSE checkLoop(Tail(lines), [rctx EXCEPT !.flowVars = Put(@, l.Name, v.val)],
                                v.heap, Append(events, Ran("let", l)), at)
            ELSE checkLoop(Tail(lines), rctx, heap, events, at)

(***************************************************************************)
(* The loops of Execute.  A failing let or assertion is recorded and the   *)
(* loop continues.                                                         *)
(***************************************************************************)
BareContext(vars, views) == RequestContext(VNilMap, vars, VNull, 0, VNilMap, views)

\* the loop over plan.Globals, and with flow set the loop over a prelude
RECURSIVE letLoop(_, _, _, _, _, _)
letLoop(lets, vars, heap, diags, file, flow) ==
    IF lets = <<>> THEN [vars |-> vars, heap |-> heap, diags |-> diags]
    ELSE LET g == Head(lets)
             v == evalExpr(g.Value, BareContext(vars, <<>>), heap)
             msg == IF flow = "" THEN "failed to evaluate global let " \o g.Name
                    ELSE "failed to evaluate flow prelude let"
         IN IF v.err # ""
            THEN letLoop(Tail(lets), vars, v.heap,
                         Append(diags, runtimeDiag("E_RUNTIME_EXPRESSION", msg, file, g.Span,
                                                   v.err, flow, "")),
                         file, flow)
            ELSE letLoop(Tail(lets), Put(vars, g.Name, v.val), v.heap, diags, file, flow)

\* the loop over the assertions of a flow
RECURSIVE flowAssertLoop(_, _, _, _, _, _, _)
flowAssertLoop(asserts, vars, views, heap, diags, file, flow) ==
    IF asserts = <<>> THEN [heap |-> heap, diags |-> diags]
    ELSE LET as == Head(asserts)
             v == evalExpr(as.Expr, BareContext(vars, views), heap)
             b == asBool(v.val)
             d == IF v.err # ""
                  THEN <<runtimeDiag("E_RUNTIME_EXPRESSION", "failed to evaluate flow assertion",
                                     file, as.Span, v.err, flow, "")>>
                  ELSE IF b.err # "" \/ ~b.ok
                  THEN <<runtimeDiag("E_ASSERT_EXPECTED_TRUE", "flow assertion failed", file,
                                     as.Span,
                                     IF b.err # "" THEN b.err
                                     ELSE "assertion must evaluate to true", flow, "")>>
                  ELSE <<>>
         IN flowAssertLoop(Tail(asserts), vars, views, v.heap, diags \o d, file, flow)

\* the order of the loops of executeRequest, with the directives ahead of
\* the pre hooks
phaseAfterDirectivesFirst(phase) ==
    CASE phase = "begin" -> "directives"
      [] phase = "directives" -> "pre"
      [] phase = "pre" -> "dispatch"
      [] phase = "dispatch" -> "post"
      [] OTHER -> "checks"

\* the order of the loops of executeRequest
phaseAfter(phase) ==
    CASE phase = "begin" -> "pre"
      [] phase = "pre" -> "directives"
      [] phase = "directives" -> "dispatch"
      [] phase = "dispatch" -> "post"
      [] OTHER -> "checks"

\* where Execute goes when a flow is over and the run has the diagnostics
\* diags: here the run ends at the first flow that reported any
afterFlowStoppingOnDiags(next, flows, diags) ==
    IF next <= Len(flows) /\ diags = <<>> THEN "flow" ELSE "done"

\* where Execute goes when a flow is over: to the next flow of the plan
afterFlow(next, flows, diags) ==
    IF next <= Len(flows) THEN "flow" ELSE "done"

\* the answers of the server: a status and a JSON body; "error" is a
\* transport failure
Answers == {"200", "201", "error"}

ResponseBody == [token |-> VStr("abc"), value |-> VStr("child")]

\* the start of executeRequest, up to the request object: the diagnostic it
\* returns early with, or the resolved lines and the request object
beginRequest(plan, req, flowVars, heap, at) ==
    LET httpLine == req.HTTP[1]
        t == interpolatePieces(Pieces(httpLine.Path), flowVars)
        path == renderPath(t.out, flowVars)
        header == Alloc(heap, <<>>)
        query == Alloc(header.heap, <<>>)
        reqObj == Alloc(query.heap,
                        [method |-> VStr(httpMethodString(httpLine.Method)),
                         url |-> VStr(combineURL("", path.out)),
                         header |-> header.ref, query |-> query.ref, json |-> VNull])
        none == [diag |-> <<>>, lines |-> <<>>, reqObj |-> VNilMap, heap |-> heap]
    IN IF req.HTTP = <<>>
       THEN [none EXCEPT !.diag = <<StepDiag("E_RUNTIME_REQUEST_SHAPE",
                "missing http line at runtime", req.Decl.Span,
                "compiler should ensure requests contain one HTTP line", at)>>]
       ELSE IF t.err # ""
       THEN [none EXCEPT !.diag = <<StepDiag("E_RUNTIME_MISSING_VARIABLE",
                "failed to render request path", httpLine.Span, t.err, at)>>]
       ELSE IF path.err # ""
       THEN [none EXCEPT !.diag = <<StepDiag("E_RUNTIME_MISSING_PATH_PARAM", path.err,
                httpLine.Span, "define the missing variable in global/flow/request scope",
                at)>>]
       ELSE [diag |-> <<>>, lines |-> resolveLines(req, plan), reqObj |-> reqObj.ref,
             heap |-> reqObj.heap]

(***************************************************************************)
(* The state: the program being compiled, the compiler struct c, the       *)
(* position pc in Compile and Execute, what Compile returned, and the      *)
(* locals of Execute and executeRequest.  log, globals0, flowStart and     *)
(* stepStart are history: what ran, the globals as evaluated, the          *)
(* variables a flow started from, and the state of the flow when its       *)
(* current step began.  arg and out are the argument and the result of a   *)
(* function of the program that is applied on its own, outside a compile.  *)
(***************************************************************************)
VARIABLES program, pc, c, compiled, heap, globals, fi, si, flowVars, flowViews,
          lines, rctx, fr, res, faults, log, globals0, flowStart, stepStart, arg, out

vars ==
    <<program, pc, c, compiled, heap, globals, fi, si, flowVars, flowViews,
      lines, rctx, fr, res, faults, log, globals0, flowStart, stepStart,
      arg, out>>

pureVars == <<arg, out>>

compilerVars == <<program, c, compiled>>

executeVars ==
    <<heap, globals, fi, si, flowVars, flowViews, lines, rctx, fr, res, faults, log,
      globals0, flowStart, stepStart>>

NoRequest == [reqObj |-> VNilMap, resJSON |-> VNull, status |-> 0, headers |-> VNilMap]

\* nothing has been executed
InitExecute ==
    /\ compiled = [plan |-> NoPlan, diags |-> <<>>]
    /\ heap = <<>>
    /\ globals = <<>>
    /\ fi = 0
    /\ si = 0
    /\ flowVars = <<>>
    /\ flowViews = <<>>
    /\ lines = <<>>
    /\ rctx = NoRequest
    /\ fr = [Name |-> "", Steps |-> <<>>]
    /\ res = [Flows |-> <<>>, Diags |-> <<>>]
    /\ faults = 0
    /\ log = <<>>
    /\ globals0 = <<>>
    /\ flowStart = <<>>
    /\ stepStart = [vars |-> <<>>, views |-> {}, steps |-> 0]

Init ==
    /\ program \in ProgramChoices
    /\ pc = "passImports"
    /\ c = NewCompiler("./a.pt", Modules(program))
    /\ InitExecute
    /\ arg = <<>>
    /\ out = <<>>

\* no program is being compiled or executed: a function is applied on its own
NoCompile(at) ==
    /\ program = [variant |-> "plain", flows |-> <<>>]
    /\ pc = at
    /\ c = <<>>
    /\ InitExecute

\* run: one action per pass, in the order of run
PassImports ==
    /\ pc = "passImports"
    /\ c' = passImports(c)
    /\ pc' = "passSymbols"
    /\ UNCHANGED <<program, compiled, executeVars, pureVars>>

PassSymbols ==
    /\ pc = "passSymbols"
    /\ \E mapOrder \in MapOrders : c' = passSymbols(c, mapOrder)
    /\ pc' = "passRequestInheritance"
    /\ UNCHANGED <<program, compiled, executeVars, pureVars>>

PassRequestInheritance ==
    /\ pc = "passRequestInheritance"
    /\ c' = passRequestInheritance(c)
    /\ pc' = "passRequests"
    /\ UNCHANGED <<program, compiled, executeVars, pureVars>>

PassRequests ==
    /\ pc = "passRequests"
    /\ \E mapOrder \in MapOrders : c' = passRequests(c, mapOrder)
    /\ pc' = "passFlows"
    /\ UNCHANGED <<program, compiled, executeVars, pureVars>>

PassFlows ==
    /\ pc = "passFlows"
    /\ c' = passFlows(c)
    /\ pc' = "buildPlan"
    /\ UNCHANGED <<program, compiled, executeVars, pureVars>>

\* the end of run and the return of Compile
CompileReturn ==
    /\ pc = "buildPlan"
    /\ \E mapOrder \in MapOrders : c' = planIfClean(c, mapOrder)
    /\ compiled' = CompileResult(c')
    /\ pc' = "compiled"
    /\ UNCHANGED <<program, executeVars, pureVars>>

(***************************************************************************)
(* Execute.                                                                *)
(***************************************************************************)
Plan == compiled.plan

CurFlow == Plan.Flows[fi]

CurStep == CurFlow.Steps[si]

\* where the diagnostics of the current step point
At == [file |-> Plan.EntryPath, flow |-> CurFlow.Name, req |-> stepDisplayName(CurStep)]

Rctx ==
    RequestContext(rctx.reqObj, flowVars, rctx.resJSON, rctx.status, rctx.headers, flowViews)

Event(kind, line) ==
    [kind |-> kind, fi |-> fi, si |-> si, line |-> line, method |-> "", url |-> "",
     header |-> <<>>, query |-> <<>>]

Events(evs) == [i \in 1..Len(evs) |-> Event(evs[i].kind, evs[i].line)]

DiagEvents(ds) == [i \in 1..Len(ds) |-> Event("diag", ds[i].Line)]

\* the continue of the step loop: on to the next step, or to the flow's
\* assertions after the last one
StepOver ==
    /\ si' = si + 1
    /\ pc' = IF si < Len(CurFlow.Steps) THEN "step" ELSE "flowAsserts"

\* the values of a variable map as they marshal
Marshalled(m, h) == [n \in DOMAIN m |-> Marshal(m[n], h)]

\* Execute up to the flow loop: the global lets
ExecuteBegin ==
    /\ pc = "compiled"
    /\ ~Plan.nil
    /\ LET r == letLoop(Plan.Globals, <<>>, heap, res.Diags, Plan.EntryPath, "")
       IN /\ globals' = r.vars
          /\ heap' = r.heap
          /\ res' = [res EXCEPT !.Diags = r.diags]
    /\ globals0' = Marshalled(globals', heap')
    /\ fi' = 1
    /\ pc' = afterFlow(1, Plan.Flows, <<>>)
    /\ UNCHANGED <<pureVars, compilerVars, si, flowVars, flowViews, lines, rctx, fr, faults, log,
                   flowStart, stepStart>>

\* the head of the flow loop: flowVars, the prelude, flowViews
FlowBegin ==
    /\ pc = "flow"
    /\ LET r == letLoop(CurFlow.Decl.Prelude, copyMap(globals), heap, res.Diags,
                        Plan.EntryPath, CurFlow.Name)
       IN /\ flowVars' = r.vars
          /\ heap' = r.heap
          /\ res' = [res EXCEPT !.Diags = r.diags]
    /\ flowStart' = Marshalled(copyMap(globals), heap)
    /\ flowViews' = <<>>
    /\ fr' = [Name |-> CurFlow.Name, Steps |-> <<>>]
    /\ si' = 1
    /\ pc' = IF Len(CurFlow.Steps) >= 1 THEN "step" ELSE "flowAsserts"
    /\ log' = Append(log, [Event("flow", CurFlow.Span.Line) EXCEPT !.si = 0])
    /\ UNCHANGED <<pureVars, compilerVars, globals, fi, lines, rctx, faults, globals0, stepStart>>

\* the head of the step loop and executeRequest up to its first loop
StepBegin ==
    /\ pc = "step"
    /\ IF CurStep.Request \notin RequestNames(Plan)
       THEN /\ res' = [res EXCEPT !.Diags = Append(@,
                          runtimeDiag("E_RUNTIME_UNKNOWN_REQUEST",
                                      "request not found in runtime plan", Plan.EntryPath,
                                      CurFlow.Span, CurStep.Request, CurFlow.Name,
                                      CurStep.Request))]
            /\ log' = Append(log, Event("diag", CurFlow.Span.Line))
            /\ StepOver
            /\ UNCHANGED <<heap, lines, rctx>>
       ELSE LET r == beginRequest(Plan, RequestByName(Plan, CurStep.Request), flowVars,
                                  heap, At)
            IN /\ res' = [res EXCEPT !.Diags = @ \o r.diag]
               /\ log' = log \o DiagEvents(r.diag)
               /\ heap' = r.heap
               /\ lines' = r.lines
               /\ rctx' = [NoRequest EXCEPT !.reqObj = r.reqObj]
               /\ IF r.diag # <<>> THEN StepOver
                  ELSE pc' = phaseAfter("begin") /\ si' = si
    /\ stepStart' = [vars |-> Marshalled(flowVars, heap), views |-> DOMAIN flowViews,
                     steps |-> Len(fr.Steps)]
    /\ UNCHANGED <<pureVars, compilerVars, globals, fi, flowVars, flowViews, fr, faults, globals0,
                   flowStart>>

\* one loop of executeRequest that only reads and writes variables and the
\* request object; r is what the loop returned
LoopDone(r, phase) ==
    /\ flowVars' = r.flowVars
    /\ heap' = r.heap
    /\ log' = log \o Events(r.events) \o DiagEvents(r.diag)
    /\ res' = [res EXCEPT !.Diags = @ \o r.diag]
    /\ IF r.diag # <<>> THEN StepOver
       ELSE pc' = phaseAfter(phase) /\ si' = si

PreHooks ==
    /\ pc = "pre"
    /\ LoopDone(hookLoop(lines, "HookPre", Rctx, heap, <<>>, At), "pre")
    /\ UNCHANGED <<pureVars, compilerVars, globals, fi, flowViews, lines, rctx, fr, faults, globals0,
                   flowStart, stepStart>>

Directives ==
    /\ pc = "directives"
    /\ LoopDone(directiveLoop(lines, Rctx, heap, <<>>, At), "directives")
    /\ UNCHANGED <<pureVars, compilerVars, globals, fi, flowViews, lines, rctx, fr, faults, globals0,
                   flowStart, stepStart>>

PostHooks ==
    /\ pc = "post"
    /\ LoopDone(hookLoop(lines, "HookPost", Rctx, heap, <<>>, At), "post")
    /\ UNCHANGED <<pureVars, compilerVars, globals, fi, flowViews, lines, rctx, fr, faults, globals0,
                   flowStart, stepStart>>

\* the request as it leaves: the query applied to the URL, the content
\* type of a json body set; then client.Do and the binding of the response
Dispatch ==
    /\ pc = "dispatch"
    /\ \E answer \in Answers :
        /\ answer # "200" => faults < MaxFaults
        /\ faults' = IF answer # "200" THEN faults + 1 ELSE faults
        /\ LET reqMap == heap[rctx.reqObj.r]
               finalURL == applyQuery(reqMap["url"].v, heap[reqMap["query"].r])
               heap1 == Store(heap, rctx.reqObj, "url", VStr(finalURL))
               heap2 == IF reqMap["json"] # VNull
                        THEN Store(heap1, reqMap["header"], "Content-Type",
                                   VStr("application/json"))
                        ELSE heap1
               sent == heap2[reqMap["header"].r]
               asked == heap2[reqMap["query"].r]
               body == Alloc(heap2, ResponseBody)
               headers == Alloc(body.heap, <<>>)
               req == RequestByName(Plan, CurStep.Request)
               d == StepDiag("E_RUNTIME_TRANSPORT", "http request failed", req.Decl.Span,
                             "transport error", At)
               ev == [Event("dispatch", req.HTTP[1].Span.Line) EXCEPT
                         !.method = reqMap["method"].v, !.url = finalURL,
                         !.header = [key \in DOMAIN sent |-> Sprint(sent[key])],
                         !.query = [key \in DOMAIN asked |-> Sprint(asked[key])]]
           IN IF answer = "error"
              THEN /\ heap' = heap2
                   /\ res' = [res EXCEPT !.Diags = Append(@, d)]
                   /\ log' = log \o <<ev, Event("diag", d.Line)>>
                   /\ StepOver
                   /\ UNCHANGED rctx
              ELSE /\ heap' = headers.heap
                   /\ rctx' = [rctx EXCEPT !.resJSON = body.ref,
                                           !.status = ParseFloat(answer),
                                           !.headers = headers.ref]
                   /\ log' = Append(log, ev)
                   /\ pc' = phaseAfter("dispatch")
                   /\ UNCHANGED <<si, res>>
    /\ UNCHANGED <<pureVars, compilerVars, globals, fi, flowVars, flowViews, lines, fr, globals0,
                   flowStart, stepStart>>

\* the last loop of executeRequest, its return, and the end of the step in
\* Execute: the binding and the step result
Checks ==
    /\ pc = "checks"
    /\ LET r == checkLoop(lines, Rctx, heap, <<>>, At)
           snapshot == Alloc(r.heap, copyMap(r.heap[rctx.reqObj.r]))
       IN /\ flowVars' = r.flowVars
          /\ log' = log \o Events(r.events) \o DiagEvents(r.diag)
          /\ res' = [res EXCEPT !.Diags = @ \o r.diag]
          /\ IF r.diag # <<>>
             THEN /\ heap' = r.heap
                  /\ UNCHANGED <<flowViews, fr>>
             ELSE /\ heap' = snapshot.heap
                  /\ flowViews' = Put(flowViews, CurStep.Binding,
                                      [Res |-> rctx.resJSON, Req |-> snapshot.ref,
                                       Status |-> rctx.status, Header |-> rctx.headers])
                  /\ fr' = [fr EXCEPT !.Steps = Append(@,
                               [Request |-> CurStep.Request, Binding |-> CurStep.Binding,
                                Status |-> rctx.status])]
    /\ StepOver
    /\ UNCHANGED <<pureVars, compilerVars, globals, fi, lines, rctx, faults, globals0, flowStart, stepStart>>

\* the tail of the flow loop: the flow's assertions and its result
FlowEnd ==
    /\ pc = "flowAsserts"
    /\ LET r == flowAssertLoop(CurFlow.Decl.Asserts, flowVars, flowViews, heap, res.Diags,
                               Plan.EntryPath, CurFlow.Name)
       IN /\ heap' = r.heap
          /\ res' = [Flows |-> Append(res.Flows, fr), Diags |-> r.diags]
    /\ fi' = fi + 1
    /\ pc' = afterFlow(fi + 1, Plan.Flows, res'.Diags)
    /\ log' = Append(log, Event("flowEnd", CurFlow.Span.Line))
    /\ UNCHANGED <<pureVars, compilerVars, globals, si, flowVars, flowViews, lines, rctx, fr, faults,
                   globals0, flowStart, stepStart>>

(***************************************************************************)
(* The report of a run.  A testcase's name is the pair of its index and    *)
(* its display text, its message the diagnostic's message and position.    *)
(***************************************************************************)
Summary(tests, failures, errors) ==
    [Tests |-> tests, Failures |-> failures, Errors |-> errors]

\* the codes with the prefix E_ASSERT_ are failures; the evaluator has one
statusForCode(code) ==
    IF code \in {"E_ASSERT_EXPECTED_TRUE"} THEN "failure" ELSE "error"

diagMessage(d) == <<d.Message, d.File, d.Line, d.Column>>

\* the bucket of byFlow a diagnostic goes to
Bucket(d) == IF d.Flow = "" THEN "global" ELSE d.Flow

\* the diagnostics of diags that name the request, first to last
DiagsFor(diags, request) ==
    SelectSeq(diags, LAMBDA d : d.Request # "" /\ d.Request = request)

\* firstDiagFor: a sequence of one diagnostic, or the empty sequence for nil
firstDiagFor(diags, request) ==
    IF DiagsFor(diags, request) = <<>> THEN <<>> ELSE <<DiagsFor(diags, request)[1]>>

summarize(cases) ==
    Summary(Len(cases),
            Len(SelectSeq(cases, LAMBDA tc : tc.Status = "failure")),
            Len(SelectSeq(cases, LAMBDA tc : tc.Status = "error")))

RECURSIVE SumOf(_, _)
SumOf(suites, field) ==
    IF suites = <<>> THEN 0 ELSE Head(suites).Summary[field] + SumOf(Tail(suites), field)

summarizeSuites(suites) ==
    Summary(SumOf(suites, "Tests"), SumOf(suites, "Failures"), SumOf(suites, "Errors"))

\* the testcase of the stepIndex-th step of a flow
StepCase(flow, stepIndex, diags) ==
    LET step == flow.Decl.Chain[stepIndex]
        display == IF step.Alias # NoName THEN step.ReqName \o ":" \o step.Alias
                   ELSE step.ReqName
        canonical == display
        d == firstDiagFor(diags, canonical)
    IN [Name |-> <<stepIndex, display>>, Flow |-> flow.Name, Request |-> canonical,
        Status |-> IF d # <<>> THEN statusForCode(d[1].Code) ELSE "passed",
        Message |-> IF d # <<>> THEN diagMessage(d[1]) ELSE <<>>]

\* the suite of one flow: a testcase per step of the chain, then one per
\* diagnostic of the flow that names no request
SuiteOf(flow, diags) ==
    LET flowLevel == SelectSeq(diags, LAMBDA d : d.Request = "")
        cases == [i \in 1..Len(flow.Decl.Chain) |-> StepCase(flow, i, diags)]
                 \o [i \in 1..Len(flowLevel) |->
                        [Name |-> <<i, "flow :: assert">>, Flow |-> flow.Name,
                         Request |-> "", Status |-> statusForCode(flowLevel[i].Code),
                         Message |-> diagMessage(flowLevel[i])]]
    IN [Name |-> flow.Name, Testcases |-> cases, Summary |-> summarize(cases)]

Build(plan, result) ==
    IF plan.nil THEN [Suites |-> <<>>, Summary |-> Summary(0, 0, 0)]
    ELSE LET byFlow(name) == SelectSeq(result.Diags, LAMBDA d : Bucket(d) = name)
             suites == [i \in 1..Len(plan.Flows) |->
                           SuiteOf(plan.Flows[i], byFlow(plan.Flows[i].Name))]
         IN [Suites |-> suites, Summary |-> summarizeSuites(suites)]

\* the report of the run, built from the plan and the result of Execute
Report ==
    /\ pc = "done"
    /\ out' = Build(Plan, res)
    /\ pc' = "reported"
    /\ UNCHANGED <<compilerVars, executeVars, arg>>

Next ==
    \/ PassImports
    \/ PassSymbols
    \/ PassRequestInheritance
    \/ PassRequests
    \/ PassFlows
    \/ CompileReturn
    \/ ExecuteBegin
    \/ FlowBegin
    \/ StepBegin
    \/ PreHooks
    \/ Directives
    \/ Dispatch
    \/ PostHooks
    \/ Checks
    \/ FlowEnd
    \/ Report

Spec == Init /\ [][Next]_vars

(***************************************************************************)
(* The properties.  They read the history variable log: one event per      *)
(* flow begun, hook block run, directive applied, request dispatched,      *)
(* assertion or let evaluated, step diagnostic appended and flow ended,     *)
(* each with the flow index fi and the step index si it happened in.       *)
(***************************************************************************)
StepWork == {"pre", "directive", "dispatch", "post", "assert", "let"}

\* the request a step event belongs to
EventRequest(e) == RequestByName(Plan, Plan.Flows[e.fi].Steps[e.si].Request)

\* the events of step si of flow fi, in the order they happened
StepLog(f, s) == SelectSeq(log, LAMBDA e : e.fi = f /\ e.si = s /\ e.kind \in StepWork)

\* C1: once a step of a flow has produced a step-level diagnostic, no later
\* step of that flow does any work: no hook, directive, dispatch, assertion
\* or let of a later step of the same flow follows the diagnostic.
C1_FlowStopsAtFirstStepDiagnostic ==
    \A i, j \in 1..Len(log) :
        (/\ i < j
         /\ log[i].kind = "diag"
         /\ log[j].fi = log[i].fi
         /\ log[j].si > log[i].si)
            => log[j].kind \notin StepWork

\* what Execute does instead: after a step's diagnostic the step loop goes
\* on with the next step of the chain, whose request is dispatched
C1_NextStepRunsAfterDiagnostic ==
    \A i \in 1..Len(log) :
        (/\ log[i].kind = "diag"
         /\ log[i].si < Len(Plan.Flows[log[i].fi].Steps)
         /\ pc = "done")
            => \E j \in i + 1..Len(log) :
                   /\ log[j].fi = log[i].fi
                   /\ log[j].si = log[i].si + 1
                   /\ log[j].kind \in {"dispatch", "diag"}

C1_StepRanAfterDiagnostic ==
    \E i, j \in 1..Len(log) :
        /\ i < j
        /\ log[i].kind = "diag"
        /\ log[j].fi = log[i].fi
        /\ log[j].si = log[i].si + 1
        /\ log[j].kind = "dispatch"

FlowNames(fs) == [i \in 1..Len(fs) |-> fs[i].Name]

\* the flows that have begun, in the order they began
FlowsBegun ==
    LET begun == SelectSeq(log, LAMBDA e : e.kind = "flow")
    IN [i \in 1..Len(begun) |-> Plan.Flows[begun[i].fi].Name]

\* C2: every flow of the plan is executed and appears in the result in plan
\* order, whatever diagnostics earlier flows produced: the flows begun and
\* the flow results are always a prefix of the plan's flows, and when
\* Execute returns they are all of them.
C2_EveryFlowRunsInPlanOrder ==
    ~Plan.nil =>
        /\ FlowNames(res.Flows) = SubSeq(FlowNames(Plan.Flows), 1, Len(res.Flows))
        /\ FlowsBegun = SubSeq(FlowNames(Plan.Flows), 1, Len(FlowsBegun))
        /\ pc = "done" =>
              /\ Len(res.Flows) = Len(Plan.Flows)
              /\ Len(FlowsBegun) = Len(Plan.Flows)

\* the second flow of a plan dispatched a request and has its result
\* although the first flow left diagnostics
C2_SecondFlowRanAfterFirstFailed ==
    /\ pc = "done"
    /\ Len(res.Flows) = 2
    /\ \E k \in 1..Len(res.Diags) : res.Diags[k].Flow = res.Flows[1].Name
    /\ \E j \in 1..Len(log) : log[j].fi = 2 /\ log[j].kind = "dispatch"

\* the names the family's programs use for variables
ProgramNames ==
    {"id", "cfg", "token", "seen", "count", "shared", "bad", "nope", "o", "child"}

\* a run-time failure on an undefined name: a missing variable, a missing
\* path parameter, an undefined identifier
UndefinedName(d) ==
    \/ d.Code \in {"E_RUNTIME_MISSING_VARIABLE", "E_RUNTIME_MISSING_PATH_PARAM"}
    \/ d.Hint \in {"undefined identifier " \o n : n \in ProgramNames}

\* diagnostic k is a step's, and no earlier step of its flow left one
FirstStepDiag(k) ==
    /\ res.Diags[k].Request # ""
    /\ \A j \in 1..k - 1 :
           ~(res.Diags[j].Flow = res.Diags[k].Flow /\ res.Diags[j].Request # "")

\* C3: in a plan that compiled without diagnostics, a step whose earlier
\* steps all succeeded never fails at run time on an undefined name.
C3_NoUndefinedNameAfterCleanCompile ==
    \A k \in 1..Len(res.Diags) : FirstStepDiag(k) => ~UndefinedName(res.Diags[k])

\* the only step of a flow fails on the path parameter :shared although the
\* compile was clean and nothing else failed: shared is a global let of the
\* imported module, which passSymbols counts and buildPlan leaves out
C3_ImportedGlobalMissingAtRunTime ==
    /\ Len(compiled.diags) = 0
    /\ Len(res.Diags) = 1
    /\ res.Diags[1].Code = "E_RUNTIME_MISSING_PATH_PARAM"
    /\ res.Diags[1].Request = "sh"
    /\ res.Diags[1].Message = "missing variable shared for path param"

CompilePcs ==
    {"passImports", "passSymbols", "passRequestInheritance", "passRequests", "passFlows",
     "buildPlan"}

\* C4: Compile returns a plan exactly when the passes produced no
\* diagnostic; with any diagnostic the returned plan is nil, the sorted
\* diagnostics are returned, and buildPlan never ran: the compiler holds no
\* plan either.
C4_PlanIffNoDiagnostics ==
    pc \notin CompilePcs =>
        /\ ~compiled.plan.nil <=> Len(compiled.diags) = 0
        /\ Len(c.diags) = 0 <=> Len(compiled.diags) = 0
        /\ Len(c.diags) > 0 => c.plan.nil /\ compiled.diags = SortAndDedupe(c.diags)
        /\ Len(c.diags) = 0 => compiled.plan = c.plan /\ ~c.plan.nil

\* Compile has returned diagnostics and no plan for a program with a flow
C4_DiagnosticsAndNoPlan ==
    /\ pc = "compiled"
    /\ Len(program.flows) > 0
    /\ Len(compiled.diags) > 0
    /\ compiled.plan.nil
    /\ c.plan.nil

\* the place of an event's kind in the order of a step
PhaseOf(kind) ==
    CASE kind = "pre" -> 1
      [] kind = "directive" -> 2
      [] kind = "dispatch" -> 3
      [] kind = "post" -> 4
      [] OTHER -> 5

\* the place of the line an event ran in the effective lines of its step
LinePos(e) ==
    LET ls == resolveLines(EventRequest(e), Plan)
    IN CHOOSE i \in 1..Len(ls) : ls[i].Span.Line = e.line

\* the headers a request's directives set to a plain string
LiteralHeaders(ls) ==
    {<<ls[i].Key, ls[i].Value.Value>> :
        i \in {n \in 1..Len(ls) : /\ ls[n].kind = "HeaderDirective"
                                  /\ ls[n].Value.k = "StringLit"
                                  /\ templateVarRE(ls[n].Value.Value) = <<>>}}

StepNotAfter(a, b) == a.fi < b.fi \/ (a.fi = b.fi /\ a.si <= b.si)

\* C6: requests are dispatched one at a time, flow after flow in the plan's
\* order, which is ascending flow name, and inside a flow step after step
\* in the order of the chain as written: the log never goes back to an
\* earlier step or flow, a step dispatches the request its chain entry
\* names, and nothing of a flow happens after the flow has ended.
C6_DispatchesInPlanAndChainOrder ==
    ~Plan.nil =>
        /\ \A f, g \in 1..Len(Plan.Flows) :
               f < g => StrLess(Plan.Flows[f].Name, Plan.Flows[g].Name)
        /\ \A f \in 1..Len(Plan.Flows) :
               /\ Len(Plan.Flows[f].Steps) = Len(Plan.Flows[f].Decl.Chain)
               /\ \A s \in 1..Len(Plan.Flows[f].Steps) :
                      Plan.Flows[f].Steps[s].Request = Plan.Flows[f].Decl.Chain[s].ReqName
        /\ \A i, j \in 1..Len(log) :
               i < j =>
                   /\ StepNotAfter(log[i], log[j])
                   /\ log[i].kind = "flowEnd" => log[i].fi < log[j].fi
                   /\ (log[i].kind = "dispatch" /\ log[j].kind = "dispatch") =>
                          log[i].fi < log[j].fi \/ log[i].si < log[j].si
        /\ \A d \in 1..Len(log) :
               log[d].kind = "dispatch" =>
                   log[d].line = EventRequest(log[d]).HTTP[1].Span.Line

\* two flows declared in descending name order ran two steps each, all
\* four dispatched
C6_TwoFlowsOfTwoStepsDispatched ==
    /\ pc = "done"
    /\ Len(program.flows) = 2
    /\ StrLess(program.flows[2], program.flows[1])
    /\ \A f, s \in 1..2 :
           \E d \in 1..Len(log) :
               log[d].kind = "dispatch" /\ log[d].fi = f /\ log[d].si = s

\* C7: every flow starts from the global lets as they were first evaluated:
\* the variables a flow is given marshal to the same values as the globals
\* did when Execute evaluated them, whatever earlier flows wrote.
C7_FlowsStartFromGlobalsAsEvaluated ==
    Len(log) > 0 => flowStart = globals0

\* what does hold: a flow's own variable map is a fresh one, so a let or an
\* assignment to a variable itself, which writes the map, never reaches the
\* globals map; only writes through a shared object do
C7_TopLevelBindingsIsolated ==
    Len(log) > 0 =>
        /\ DOMAIN flowStart = DOMAIN globals0
        /\ \A n \in DOMAIN globals0 : globals[n].t # "map" => flowStart[n] = globals0[n]

\* the second flow has started with cfg.a = "2", the value the first flow's
\* pre hook wrote into the object of the global let cfg
C7_SecondFlowSeesFirstFlowsWrite ==
    /\ fi = 2
    /\ Len(log) > 0
    /\ log[Len(log)].kind = "flow"
    /\ globals0["cfg"] # flowStart["cfg"]
    /\ flowStart["id"] = globals0["id"]

\* the lines of the hook blocks of one kind among ls
HookLines(ls, hk) ==
    {ls[i].Span.Line : i \in {n \in 1..Len(ls) : ls[n].kind = "HookBlock" /\ ls[n].Kind = hk}}

\* the queries a request's directives set to a plain string
LiteralQueries(ls) ==
    {<<ls[i].Key, ls[i].Value.Value>> :
        i \in {n \in 1..Len(ls) : /\ ls[n].kind = "QueryDirective"
                                  /\ ls[n].Value.k = "StringLit"
                                  /\ templateVarRE(ls[n].Value.Value) = <<>>}}

BeforeInheritance == {"passImports", "passSymbols", "passRequestInheritance"}

AssertLines(ls) ==
    LET as == SelectKind(ls, "AssertStmt") IN {as[i].Span.Line : i \in 1..Len(as)}

KindRank(l) ==
    CASE l.kind = "HttpLine" -> 1
      [] l.kind = "AuthDirective" -> 2
      [] l.kind = "HeaderDirective" -> 3
      [] l.kind = "QueryDirective" -> 4
      [] l.kind = "JsonDirective" -> 5
      [] l.kind = "HookBlock" /\ l.Kind = "HookPre" -> 6
      [] l.kind = "HookBlock" -> 7
      [] l.kind = "AssertStmt" -> 8
      [] OTHER -> 9

Canonical(ls) == \A i, j \in 1..Len(ls) : i < j => KindRank(ls[i]) <= KindRank(ls[j])

MaxMergeLines == 4

\* two values for the header X, a second header, two assertions, an HTTP line
MergePool ==
    <<HeaderDirective(1, "X", StringLit("1")), HeaderDirective(2, "X", StringLit("2")),
      HeaderDirective(3, "Y", StringLit("1")), AssertStmt(4, StatusIs("200")),
      AssertStmt(5, StatusIs("201")), HttpLine(6, "MethodGet", "/a")>>

\* the sequences of at most n lines of the pool
RECURSIVE LineLists(_)
LineLists(n) ==
    IF n = 0 THEN {<<>>}
    ELSE LineLists(n - 1)
         \cup {Append(ls, MergePool[i]) : ls \in LineLists(n - 1), i \in 1..Len(MergePool)}

\* a list of lines cut in three: the lines of A, of its child B and of
\* B's child C
CutInThree(ls, i, j) ==
    [A |-> SubSeq(ls, 1, i), B |-> SubSeq(ls, i + 1, j), C |-> SubSeq(ls, j + 1, Len(ls))]

InitMerge ==
    /\ NoCompile("merge")
    /\ \E ls \in LineLists(MaxMergeLines) :
         \E j \in 0..Len(ls) :
            \E i \in 0..j : arg = CutInThree(ls, i, j)
    /\ out = <<>>

\* the effective lines of C two ways: the merge of A and B merged with C,
\* and what passRequestInheritance computes for the leaf of the chain
MergeChain ==
    /\ pc = "merge"
    /\ out' = [nested |-> mergeRequestLines(mergeRequestLines(arg.A, arg.B), arg.C),
               resolved |-> mergeRequestLines(
                                mergeRequestLines(mergeRequestLines(<<>>, arg.A), arg.B),
                                arg.C)]
    /\ pc' = "merged"
    /\ UNCHANGED <<program, c, compiled, executeVars, arg>>

SpecMerge == InitMerge /\ [][MergeChain]_vars

\* A's lines applied to the empty shape, then B's, then C's
ChainLines(A, B, C) ==
    ShapeLines(applyLines(applyLines(applyLines(EmptyShape, A, FALSE), B, TRUE), C, TRUE))

\* C11: merging is associative along the chain: the merge of (the merge of
\* A and B) with C is the list of lines got by applying A's lines, then
\* B's, then C's; it is also what the resolution of the chain computes.
C11_MergeAssociativeAlongChain ==
    pc = "merged" =>
        /\ out.nested = ChainLines(arg.A, arg.B, arg.C)
        /\ out.resolved = ChainLines(arg.A, arg.B, arg.C)

\* a chain of three requests has been merged in which C overrides the
\* header X of A and replaces the assertion of B
C11_ChainWithOverridesMerged ==
    /\ pc = "merged"
    /\ arg.A = <<MergePool[1]>>
    /\ arg.B = <<MergePool[4]>>
    /\ arg.C = <<MergePool[2], MergePool[5]>>
    /\ out.nested = <<MergePool[2], MergePool[5]>>


(***************************************************************************)
(* C12: the HTTP line of a plan request.                                   *)
(***************************************************************************)
\* the plans the compiler has produced so far: the one it holds and the one
\* Compile returned
PlansBuilt == {p \in {c.plan, compiled.plan} : ~p.nil}

\* C12: in every compiled plan, the effective lines of each plan request
\* contain exactly one HTTP line, and it is the line PlanRequest.HTTP points to.
C12_PlanRequestHasOneHTTPLine ==
    \A plan \in PlansBuilt :
        \A i \in 1..Len(plan.Requests) :
            LET r == plan.Requests[i]
                https == SelectKind(r.Lines, "HttpLine")
            IN Len(https) = 1 /\ r.HTTP = <<https[1]>>

\* a plan has been compiled in which the request child, whose parent has an
\* HTTP line of its own, points to the HTTP line child declares
C12_ChildPlannedWithOwnHTTPLine ==
    /\ pc = "compiled"
    /\ compiled.plan # NoPlan
    /\ \E i \in 1..Len(compiled.plan.Requests) :
          LET r == compiled.plan.Requests[i]
          IN /\ r.Name = "child"
             /\ Len(SelectKind(r.Decl.Lines, "HttpLine")) = 1
             /\ Len(SelectKind(RequestByName(compiled.plan, "parent").Decl.Lines, "HttpLine")) = 1
             /\ r.HTTP = <<HttpLine(32, "MethodGet", "/child/:id")>>


(***************************************************************************)
(* C13: duplicate lines of one request declaration.                        *)
(***************************************************************************)
\* the request declarations of the entry module
DeclaredRequests == SelectKind(Modules(program)[EntryPath], "ReqDecl")

CountHooks(ls, hk) == Cardinality(HookLines(ls, hk))

Reported(code) == \E i \in 1..Len(compiled.diags) : compiled.diags[i].Code = code

\* the declaration d breaks the rule whose code is given
Duplicates(d, code) ==
    CASE code = "E_SEM_REQ_MULTIPLE_HTTP_LINES" -> Len(SelectKind(d.Lines, "HttpLine")) > 1
      [] code = "E_SEM_DUPLICATE_PRE_HOOK" -> CountHooks(d.Lines, "HookPre") > 1
      [] code = "E_SEM_DUPLICATE_POST_HOOK" -> CountHooks(d.Lines, "HookPost") > 1
      [] OTHER -> Len(SelectKind(d.Lines, "JsonDirective")) > 1

DuplicateCodes ==
    {"E_SEM_REQ_MULTIPLE_HTTP_LINES", "E_SEM_DUPLICATE_PRE_HOOK",
     "E_SEM_DUPLICATE_POST_HOOK", "E_SEM_MULTIPLE_BODIES"}

\* C13: a request declaration with more than one HTTP line, pre hook, post
\* hook or json body is rejected by Compile with the code of the rule it
\* breaks, and no plan is produced.
C13_DuplicateLinesRejected ==
    pc = "compiled" =>
        \A i \in 1..Len(DeclaredRequests) :
            \A code \in DuplicateCodes :
                Duplicates(DeclaredRequests[i], code) =>
                    Reported(code) /\ compiled.plan = NoPlan

\* Compile has returned a plan and no diagnostic for a module that declares a
\* request with two HTTP lines, one with two json bodies, one with two post
\* hooks and one with two pre hooks; each is planned with the last of the two
C13_DuplicateLinesCompiled ==
    /\ pc = "compiled"
    /\ compiled.plan # NoPlan
    /\ compiled.diags = <<>>
    /\ \A code \in DuplicateCodes :
          \E i \in 1..Len(compiled.plan.Requests) :
              Duplicates(compiled.plan.Requests[i].Decl, code)
    /\ RequestByName(compiled.plan, "twohttp").Lines = <<HttpLine(202, "MethodPost", "/h2")>>


(***************************************************************************)
(* C14: pre hooks and the response context.                                *)
(***************************************************************************)
\* the expression mentions res or #, or holds a {{status}} or {{res}}
\* placeholder
RECURSIVE ReadsResponse(_)
ReadsResponse(e) ==
    CASE e.k = "IdentExpr" -> e.Name = "res"
      [] e.k = "HashExpr" -> TRUE
      [] e.k = "StringLit" ->
            \E i \in 1..Len(templateVarRE(e.Value)) :
                templateVarRE(e.Value)[i] \in {"status", "res"}
      [] e.k = "BinaryExpr" -> ReadsResponse(e.Left) \/ ReadsResponse(e.Right)
      [] e.k = "FieldExpr" -> ReadsResponse(e.X)
      [] e.k = "IndexExpr" -> ReadsResponse(e.X) \/ ReadsResponse(e.Index)
      [] e.k = "ObjectLit" -> \E i \in 1..Len(e.Pairs) : ReadsResponse(e.Pairs[i].Value)
      [] OTHER -> FALSE

\* the hook statement reads the response in its expression, its assigned
\* value or its assignment target
StmtReadsResponse(st) ==
    CASE st.k = "AssignStmt" ->
            \/ ReadsResponse(st.Value)
            \/ st.Target.Root.Kind = "LValueRes"
            \/ \E i \in 1..Len(st.Target.Postfix) :
                  /\ st.Target.Postfix[i].Kind = "LValueIndex"
                  /\ ReadsResponse(st.Target.Postfix[i].Index)
      [] st.k = "ExprStmt" -> ReadsResponse(st.Expr)
      [] OTHER -> FALSE

\* the request lines hold a pre hook that reads the response
PreHookReadsResponse(ls) ==
    \E i \in 1..Len(ls) :
        /\ ls[i].kind = "HookBlock" /\ ls[i].Kind = "HookPre"
        /\ \E j \in 1..Len(ls[i].Stmts) : StmtReadsResponse(ls[i].Stmts[j])

\* C14: no compiled plan contains a pre hook that reads response context:
\* a reference to res or #, or a {{status}} or {{res}} placeholder, anywhere
\* in a pre hook makes Compile report E_SEM_PRE_HOOK_REFERENCES_RES and
\* return no plan.
C14_PreHookReadingResponseRejected ==
    pc = "compiled" =>
        /\ \A i \in 1..Len(DeclaredRequests) :
              PreHookReadsResponse(DeclaredRequests[i].Lines) =>
                  Reported("E_SEM_PRE_HOOK_REFERENCES_RES") /\ compiled.plan = NoPlan
        /\ \A plan \in PlansBuilt :
              \A i \in 1..Len(plan.Requests) : ~PreHookReadsResponse(plan.Requests[i].Lines)

\* Compile has returned a plan and no diagnostic for a module whose request
\* preres has the pre hook `req.header["XStage"] = res.token` and whose
\* request pretpl has the pre hook `req.header["XStage"] = "{{status}}"`
C14_PreHookReadingResCompiled ==
    /\ pc = "compiled"
    /\ compiled.plan # NoPlan
    /\ compiled.diags = <<>>
    /\ \E i \in 1..Len(compiled.plan.Requests) :
          /\ compiled.plan.Requests[i].Name = "preres"
          /\ PreHookReadsResponse(compiled.plan.Requests[i].Lines)
    /\ \E i \in 1..Len(compiled.plan.Requests) :
          /\ compiled.plan.Requests[i].Name = "pretpl"
          /\ PreHookReadsResponse(compiled.plan.Requests[i].Lines)

\* a pre hook that mentions # is rejected with E_SEM_PRE_HOOK_REFERENCES_RES
C14_PreHookWithHashRejected ==
    /\ pc = "compiled"
    /\ program.variant = "prehash"
    /\ compiled.plan = NoPlan
    /\ Reported("E_SEM_PRE_HOOK_REFERENCES_RES")


(***************************************************************************)
(* C15: import cycles.                                                     *)
(***************************************************************************)
\* the loaded modules the module at path imports
ImportsOf(path) ==
    LET imps == SelectKind(Modules(program)[path], "ImportStmt")
    IN {normalizePath(imps[i].Path) : i \in 1..Len(imps)} \cap DOMAIN Modules(program)

\* two loaded modules import each other
MutualImport ==
    \E p, q \in DOMAIN Modules(program) : p # q /\ q \in ImportsOf(p) /\ p \in ImportsOf(q)

CountCode(ds, code) == Len(SelectSeq(ds, LAMBDA d : d.Code = code))

\* C15: when module A imports B and B imports A, the import traversal ends
\* with every module visited and E_IMPORT_CYCLE reported exactly once, in
\* the compiler's diagnostics and in the list Compile returns.
C15_ImportCycleReportedOnce ==
    MutualImport =>
        /\ pc # "passImports" =>
              /\ CountCode(c.diags, "E_IMPORT_CYCLE") = 1
              /\ Range(c.ordered) = DOMAIN Modules(program)
        /\ pc \notin CompilePcs =>
              /\ CountCode(compiled.diags, "E_IMPORT_CYCLE") = 1
              /\ compiled.plan = NoPlan

\* Compile has returned for the entry module a.pt that imports lib.pt, which
\* imports a.pt: both modules were visited and the cycle is reported at a.pt
C15_MutualImportCompiled ==
    /\ pc = "compiled"
    /\ MutualImport
    /\ c.ordered = <<"a.pt", "lib.pt">>
    /\ \E i \in 1..Len(compiled.diags) :
          compiled.diags[i].Code = "E_IMPORT_CYCLE" /\ compiled.diags[i].File = "a.pt"


(***************************************************************************)
(* C16: inheritance cycles.                                                *)
(***************************************************************************)
\* following the parent k times from the request `from` arrives at `to`
RECURSIVE ParentChainReaches(_, _, _)
ParentChainReaches(from, to, k) ==
    /\ k > 0
    /\ from \in DOMAIN c.reqs
    /\ c.reqs[from].Decl.Parent # NoName
    /\ \/ c.reqs[from].Decl.Parent = to
       \/ ParentChainReaches(c.reqs[from].Decl.Parent, to, k - 1)

\* the requests that are their own ancestor
OnParentCycle ==
    {n \in DOMAIN c.reqs : ParentChainReaches(n, n, Cardinality(DOMAIN c.reqs))}

\* C16: inheritance resolution ends with effective lines for every request,
\* and when a request is its own ancestor (its own parent included) at least
\* one E_SEM_INHERITANCE_CYCLE is reported, so Compile returns no plan.
C16_ParentCycleReported ==
    /\ pc \in {"passRequests", "passFlows", "buildPlan", "compiled"} =>
          /\ DOMAIN c.effReqs = DOMAIN c.reqs
          /\ OnParentCycle # {} => CountCode(c.diags, "E_SEM_INHERITANCE_CYCLE") >= 1
    /\ pc \notin CompilePcs /\ OnParentCycle # {} =>
          /\ Reported("E_SEM_INHERITANCE_CYCLE")
          /\ compiled.plan = NoPlan

\* Compile has returned no plan for a module in which selfp is its own parent
\* and tri1, tri2, tri3 inherit from each other in a ring
C16_SelfParentAndRingCompiled ==
    /\ pc = "compiled"
    /\ OnParentCycle = {"selfp", "tri1", "tri2", "tri3"}
    /\ \E i \in 1..Len(compiled.diags) :
          compiled.diags[i].Code = "E_SEM_INHERITANCE_CYCLE" /\ compiled.diags[i].Line = 230
    /\ compiled.plan = NoPlan


(***************************************************************************)
(* C17: the diagnostics of Compile do not depend on map iteration order.   *)
(***************************************************************************)
\* what Compile returns when the three range loops over the request table
\* (in passSymbols, passRequests and buildPlan) visit it in the given orders
CompileWith(o1, o2, o3) ==
    LET c1 == passImports(NewCompiler("./a.pt", Modules(program)))
        c2 == passSymbols(c1, o1)
        c3 == passRequestInheritance(c2)
        c4 == passRequests(c3, o2)
        c5 == passFlows(c4)
    IN CompileResult(planIfClean(c5, o3))

\* C17: compiling the same modules again yields the identical diagnostic
\* list, whatever the order in which the compiler's range loops visit its
\* request table: the list Compile returned is the list of the run that
\* visits the table in ascending order every time.
C17_DiagnosticsIndependentOfMapOrder ==
    pc = "compiled" =>
        compiled.diags = CompileWith("ascending", "ascending", "ascending").diags

\* Compile has returned the sorted list for a run whose range loops reported
\* the two requests without HTTP line and with unknown parent in descending
\* order, orphan2 before orphan1
C17_ReportedOutOfOrderThenSorted ==
    /\ pc = "compiled"
    /\ program.variant = "unordered"
    /\ Len(compiled.diags) = 4
    /\ [i \in 1..4 |-> c.diags[i].Line] = <<242, 240, 242, 240>>
    /\ [i \in 1..4 |-> compiled.diags[i].Line] = <<240, 240, 242, 242>>


(***************************************************************************)
(* C18: SortAndDedupe and the flow and request context of a diagnostic.    *)
(***************************************************************************)
MaxDiags == 3

\* diagnostics that agree on code, file, column and message, and differ in
\* line, related location, flow and request
DiagPool ==
    {[Diagnostic("E_X", "same", "a.pt", Span(l, 2), "", NoRelated, ctx[1], ctx[2])
         EXCEPT !.Related = IF rc = 0 THEN NoRelated
                            ELSE [File |-> "a.pt", Line |-> 1, Column |-> rc, Message |-> ""]] :
        l \in {10, 11}, rc \in {0, 1},
        ctx \in {<<"", "">>, <<"flow-a", "req-a">>, <<"flow-b", "req-b">>, <<"flow-a", "req-b">>}}

RECURSIVE DiagLists(_)
DiagLists(n) ==
    IF n = 0 THEN {<<>>}
    ELSE DiagLists(n - 1) \cup {Append(ds, d) : ds \in DiagLists(n - 1), d \in DiagPool}

InitDedupe ==
    /\ NoCompile("dedupe")
    /\ arg \in DiagLists(MaxDiags)
    /\ out = <<>>

\* out := SortAndDedupe(arg)
Dedupe ==
    /\ pc = "dedupe"
    /\ out' = SortAndDedupe(arg)
    /\ pc' = "deduped"
    /\ UNCHANGED <<program, c, compiled, executeVars, arg>>

SpecDedupe == InitDedupe /\ [][Dedupe]_vars

\* the tuple of the deduping policy
CanonicalTuple(d) ==
    <<d.Code, d.File, d.Line, d.Column, d.Message,
      d.Related.File, d.Related.Line, d.Related.Column>>

\* the first diagnostic of the list with the canonical tuple of d
FirstWithTuple(ds, d) ==
    ds[CHOOSE i \in 1..Len(ds) :
          /\ CanonicalTuple(ds[i]) = CanonicalTuple(d)
          /\ \A j \in 1..(i - 1) : CanonicalTuple(ds[j]) # CanonicalTuple(d)]

\* C18: SortAndDedupe collapses diagnostics that agree on (code, file, line,
\* column, message, related.file, related.line, related.column) into one
\* entry even when their flow or request differs, and keeps the first of
\* them in input order.
C18_DedupeIgnoresFlowAndRequest ==
    pc = "deduped" =>
        /\ \A i, j \in 1..Len(out) :
              CanonicalTuple(out[i]) = CanonicalTuple(out[j]) => i = j
        /\ \A i \in 1..Len(out) : out[i] = FirstWithTuple(arg, out[i])
        /\ {CanonicalTuple(out[i]) : i \in 1..Len(out)}
              = {CanonicalTuple(arg[i]) : i \in 1..Len(arg)}

\* two diagnostics that differ in flow and request only went in and both
\* came out
C18_SameTupleKeptTwice ==
    /\ pc = "deduped"
    /\ Len(arg) = 2
    /\ CanonicalTuple(arg[1]) = CanonicalTuple(arg[2])
    /\ arg[1].Flow = "flow-a" /\ arg[1].Request = "req-a"
    /\ arg[2].Flow = "flow-b" /\ arg[2].Request = "req-b"
    /\ out = arg

\* exact duplicates collapse into one entry
C18_ExactDuplicatesCollapsed ==
    /\ pc = "deduped"
    /\ Len(arg) = 2
    /\ arg[1] = arg[2]
    /\ Len(out) = 1


(***************************************************************************)
(* package parser: the chain line of a flow declaration.  The parser       *)
(* state is the token stream, the position of the current token in it and  *)
(* the recorded errors; past the last token the lexer answers EOF.         *)
(***************************************************************************)
MaxTokens == 4

ErrExpectedToken == "E_PARSE_EXPECTED_TOKEN"
ErrInvalidFlow == "E_PARSE_FLOW_SHAPE"

Token(kind, lit, col) == [Kind |-> kind, Lit |-> lit, Column |-> col]

Cur(ps) ==
    IF ps.at <= Len(ps.toks) THEN ps.toks[ps.at] ELSE Token("EOF", "", Len(ps.toks) + 1)

\* NewParser; loops records the iterations of the parsing loops
NewParser(toks) == [toks |-> toks, at |-> 1, errs |-> <<>>, loops |-> <<>>]

advance(ps) == [ps EXCEPT !.at = IF @ <= Len(ps.toks) THEN @ + 1 ELSE @]

addError(ps, code, msg) ==
    [ps EXCEPT !.errs = Append(@, [Code |-> code, Message |-> msg, Column |-> Cur(ps).Column])]

\* expect: the result is the parser and the token returned
expect(ps, kind, msg) ==
    IF Cur(ps).Kind # kind
    THEN [ps |-> advance(addError(ps, ErrExpectedToken, msg)),
          tok |-> Token("ILLEGAL", Cur(ps).Lit, Cur(ps).Column)]
    ELSE [ps |-> advance(ps), tok |-> Cur(ps)]

parseFlowStepRef(ps) ==
    LET name == expect(ps, "IDENT", "expected request name in flow")
    IN IF Cur(name.ps).Kind = "COLON"
       THEN LET alias == expect(advance(name.ps), "IDENT", "expected alias after ':'")
            IN [ps |-> alias.ps,
                step |-> FlowStep(1, name.tok.Column, name.tok.Lit, alias.tok.Lit)]
       ELSE [ps |-> name.ps, step |-> FlowStep(1, name.tok.Column, name.tok.Lit, NoName)]

\* the loop over the arrows of parseFlowChainLine
RECURSIVE chainArrows(_, _, _)
chainArrows(ps, steps, arrowCount) ==
    IF Cur(ps).Kind = "ARROW"
    THEN LET r == parseFlowStepRef(advance(ps))
             ps1 == [r.ps EXCEPT !.loops = Append(@, [loop |-> "parseFlowChainLine",
                                                      from |-> ps.at, to |-> r.ps.at])]
         IN chainArrows(ps1, Append(steps, r.step), arrowCount + 1)
    ELSE [ps |-> ps, steps |-> steps, arrowCount |-> arrowCount]

parseFlowChainLine(ps) ==
    LET first == parseFlowStepRef(ps)
        r == chainArrows(first.ps, <<first.step>>, 0)
    IN [ps |-> IF r.arrowCount = 0
               THEN addError(r.ps, ErrInvalidFlow, "flow chain must use '->' format")
               ELSE r.ps,
        steps |-> r.steps]

RECURSIVE syncLine(_)
syncLine(ps) ==
    IF Cur(ps).Kind \notin {"NL", "DEDENT", "EOF"}
    THEN syncLine([advance(ps) EXCEPT
                      !.loops = Append(@, [loop |-> "syncLine", from |-> ps.at, to |-> ps.at + 1])])
    ELSE IF Cur(ps).Kind = "NL" THEN advance(ps)
    ELSE ps

\* the chain part of parseFlowDecl
parseFlowDeclChain(ps) ==
    IF Cur(ps).Kind = "IDENT"
    THEN LET r == parseFlowChainLine(ps)
         IN [chain |-> r.steps,
             errs |-> expect(r.ps, "NL", "expected newline after chain line").ps.errs]
    ELSE LET ps1 == addError(ps, ErrInvalidFlow, "flow missing chain line")
         IN [chain |-> <<>>,
             errs |-> (IF Cur(ps1).Kind \notin {"DEDENT", "EOF"} THEN syncLine(ps1) ELSE ps1).errs]

\* the token kinds of a chain line, with the literals the family uses
ChainTokens == {<<"IDENT", "login">>, <<"IDENT", "o">>, <<"ARROW", "->">>, <<"COLON", ":">>,
                <<"NL", "">>}

RECURSIVE TokenLists(_)
TokenLists(n) ==
    IF n = 0 THEN {<<>>}
    ELSE TokenLists(n - 1)
         \cup {Append(ts, Token(t[1], t[2], Len(ts) + 1)) : ts \in TokenLists(n - 1), t \in ChainTokens}

InitParse ==
    /\ NoCompile("parse")
    /\ arg \in TokenLists(MaxTokens)
    /\ out = <<>>

\* out := the chain and the errors of parsing the chain line arg
ParseChain ==
    /\ pc = "parse"
    /\ out' = parseFlowDeclChain(NewParser(arg))
    /\ pc' = "parsed"
    /\ UNCHANGED <<program, c, compiled, executeVars, arg>>

SpecParse == InitParse /\ [][ParseChain]_vars

\* the line is one step reference, with or without alias, and a newline
SingleStepLine(toks) ==
    /\ Len(toks) \in {2, 4}
    /\ toks[1].Kind = "IDENT"
    /\ toks[Len(toks)].Kind = "NL"
    /\ Len(toks) = 4 => toks[2].Kind = "COLON" /\ toks[3].Kind = "IDENT"

\* C19: parsing a flow whose chain line is a single step reference with no
\* `->` records no parse diagnostic for the chain, in particular no
\* E_PARSE_FLOW_SHAPE, and yields the chain of that one step.
C19_SingleStepChainParsesClean ==
    pc = "parsed" /\ SingleStepLine(arg) =>
        /\ out.errs = <<>>
        /\ Len(out.chain) = 1

\* the chain line `login` has been parsed: the chain holds the step login
\* and E_PARSE_FLOW_SHAPE is recorded at the newline
C19_SingleStepChainFlagged ==
    /\ pc = "parsed"
    /\ arg = <<Token("IDENT", "login", 1), Token("NL", "", 2)>>
    /\ out.chain = <<FlowStep(1, 1, "login", NoName)>>
    /\ out.errs = <<[Code |-> ErrInvalidFlow, Message |-> "flow chain must use '->' format",
                     Column |-> 2]>>

\* the chain line `login -> o` has been parsed without error
C19_TwoStepChainParsedClean ==
    /\ pc = "parsed"
    /\ arg = <<Token("IDENT", "login", 1), Token("ARROW", "->", 2), Token("IDENT", "o", 3),
               Token("NL", "", 4)>>
    /\ Len(out.chain) = 2
    /\ out.errs = <<>>


(***************************************************************************)
(* package lexer: indentation.  A source text is a sequence of lines, each *)
(* ended by a newline; a line is its number of leading tabs and what its   *)
(* tokens do to the lexer: nothing at all (a blank line), nothing to the   *)
(* block state (stmt), end on a colon (colon, as `req a:`), open a hook    *)
(* (hookOpen, as `pre hook {`), close a brace (braceClose, `}`), open a    *)
(* parenthesis (open, as `let x = (`) or close one (close, `)`).  The      *)
(* lexer state is the indent stack, the flags and the depths of Lexer,     *)
(* and the kinds of the tokens emitted so far.                             *)
(***************************************************************************)
MaxLines == 3
MaxIndent == 2

\* what a line holds after its indentation: nothing, a statement, a header
\* ending on a colon, `pre hook {`, an expression `{`, `}`, `(` or `)`
LineBodies ==
    {"blank", "stmt", "colon", "hookOpen", "braceOpen", "braceClose", "open", "close"}

SourceLine(indent, body) == [indent |-> indent, body |-> body]

\* ev is the history of the lexer: one event per newline read and per token
\* queued, with the depth counters and the indent stack at that moment
NewLexer ==
    [indentStack |-> <<0>>, expectIndent |-> FALSE, lineHadColon |-> FALSE,
     hookDepth |-> 0, parenDepth |-> 0, braceExprDepth |-> 0,
     toks |-> <<>>, errs |-> <<>>, ev |-> <<>>]

\* bracketDepth is counted by the same code as parenDepth and is left out
exprDepth(l) == l.parenDepth + l.braceExprDepth

LexEvent(l, kind) ==
    [kind |-> kind, hook |-> l.hookDepth, expr |-> exprDepth(l), stack |-> l.indentStack]

Note(l, kind) == [l EXCEPT !.ev = Append(@, LexEvent(l, kind))]

Top(l) == l.indentStack[Len(l.indentStack)]

Emit(l, kind) == Note([l EXCEPT !.toks = Append(@, kind)], kind)

LexError(l, code) == [l EXCEPT !.errs = Append(@, code)]

Push(l, indent) == Emit([l EXCEPT !.indentStack = Append(@, indent)], "INDENT")

\* the dedent loop of processIndent
RECURSIVE popTo(_, _)
popTo(l, indent) ==
    IF Len(l.indentStack) > 1 /\ indent < Top(l)
    THEN popTo(Emit([l EXCEPT !.indentStack = SubSeq(@, 1, Len(@) - 1)], "DEDENT"), indent)
    ELSE l

processIndent(l, indent) ==
    LET l1 == IF l.expectIndent /\ indent <= Top(l) THEN LexError(l, "E_PARSE_INDENT") ELSE l
    IN IF l.expectIndent /\ indent > Top(l) THEN Push(l, indent)
       ELSE IF indent > Top(l1) THEN Push(LexError(l1, "E_PARSE_INDENT"), indent)
       ELSE IF indent < Top(l1)
       THEN LET l2 == popTo(l1, indent)
            IN IF indent # Top(l2) THEN LexError(l2, "E_PARSE_DEDENT") ELSE l2
       ELSE l1

\* a blank line leaves the block state alone; inside a hook or an open
\* delimiter the indentation is not looked at
\* handleLineStart that looks at the indentation inside a hook body too
handleLineStartInsideHooks(l, line) ==
    IF line.body = "blank" THEN l
    ELSE IF exprDepth(l) = 0
    THEN [processIndent(l, line.indent) EXCEPT !.expectIndent = FALSE]
    ELSE l

handleLineStart(l, line) ==
    IF line.body = "blank" THEN l
    ELSE IF l.hookDepth = 0 /\ exprDepth(l) = 0
    THEN [processIndent(l, line.indent) EXCEPT !.expectIndent = FALSE]
    ELSE l

\* the tokens of the line: scanOperatorOrPunct and afterToken
scanTokens(l, body) ==
    CASE body = "blank" -> l
      [] body = "stmt" -> Emit([l EXCEPT !.lineHadColon = FALSE], "TOKEN")
      [] body = "colon" ->
            Emit([l EXCEPT !.lineHadColon = (exprDepth(l) = 0 /\ l.hookDepth = 0)], "TOKEN")
      [] body = "hookOpen" ->
            Emit([l EXCEPT !.lineHadColon = FALSE, !.hookDepth = @ + 1], "TOKEN")
      [] body = "braceOpen" ->
            Emit([l EXCEPT !.lineHadColon = FALSE, !.braceExprDepth = @ + 1], "TOKEN")
      [] body = "braceClose" ->
            IF l.braceExprDepth > 0
            THEN Emit([l EXCEPT !.lineHadColon = FALSE, !.braceExprDepth = @ - 1], "TOKEN")
            ELSE IF l.hookDepth > 0
            THEN Emit([l EXCEPT !.lineHadColon = FALSE, !.hookDepth = @ - 1], "TOKEN")
            ELSE Emit([LexError(l, "E_PARSE_UNMATCHED_BRACE") EXCEPT !.lineHadColon = FALSE],
                      "TOKEN")
      [] body = "open" ->
            Emit([l EXCEPT !.lineHadColon = FALSE, !.parenDepth = @ + 1], "TOKEN")
      [] OTHER ->
            IF l.parenDepth > 0
            THEN Emit([l EXCEPT !.lineHadColon = FALSE, !.parenDepth = @ - 1], "TOKEN")
            ELSE Emit([LexError(l, "E_PARSE_UNMATCHED_BRACE") EXCEPT !.lineHadColon = FALSE],
                      "TOKEN")

\* handleNewline without its test of exprDepth
handleNewlineAtAnyDepth(l) ==
    LET l1 == Note(l, "newline")
    IN [Emit(l1, "NL") EXCEPT !.expectIndent = l.expectIndent \/ l.lineHadColon,
                              !.lineHadColon = FALSE]

handleNewline(l) ==
    LET l1 == Note(l, "newline")
    IN IF exprDepth(l1) = 0
       THEN [Emit(l1, "NL") EXCEPT !.expectIndent = l.expectIndent \/ l.lineHadColon,
                                   !.lineHadColon = FALSE]
       ELSE l1

\* the closing dedents of emitEOF
RECURSIVE popAll(_)
popAll(l) ==
    IF Len(l.indentStack) > 1
    THEN popAll(Emit([l EXCEPT !.indentStack = SubSeq(@, 1, Len(@) - 1)], "DEDENT"))
    ELSE l

\* emitEOF that closes no block
emitEOFLeavingBlocksOpen(l) ==
    LET l1 == IF l.hookDepth > 0
              THEN [LexError(l, "E_PARSE_UNTERMINATED_HOOK") EXCEPT !.hookDepth = 0]
              ELSE l
        l2 == IF exprDepth(l1) > 0
              THEN [LexError(l1, "E_PARSE_UNTERMINATED_DELIM")
                        EXCEPT !.parenDepth = 0, !.braceExprDepth = 0]
              ELSE l1
    IN Emit(l2, "EOF")

\* the first call of emitEOF: the open hook and delimiters are reported and
\* reset, and one DEDENT is queued for every open block
closeAtEOF(l) ==
    LET l1 == IF l.hookDepth > 0
              THEN [LexError(l, "E_PARSE_UNTERMINATED_HOOK") EXCEPT !.hookDepth = 0]
              ELSE l
        l2 == IF exprDepth(l1) > 0
              THEN [LexError(l1, "E_PARSE_UNTERMINATED_DELIM")
                        EXCEPT !.parenDepth = 0, !.braceExprDepth = 0]
              ELSE l1
    IN popAll(l2)

emitEOF(l) == Emit(closeAtEOF(l), "EOF")

\* Next, called until the lines are used up
RECURSIVE lexLines(_, _)
lexLines(l, src) ==
    IF src = <<>> THEN l
    ELSE lexLines(handleNewline(scanTokens(handleLineStart(l, Head(src)), Head(src).body)),
                  Tail(src))

\* Lex: the tokens and the errors of the source
Lex(src) ==
    LET l == emitEOF(lexLines(NewLexer, src))
    IN [toks |-> l.toks, errs |-> l.errs, ev |-> l.ev]

\* the lines a source text is made of
SourceLines == {SourceLine(i, b) : i \in 0..MaxIndent, b \in LineBodies}

InitLex ==
    /\ NoCompile("lex")
    /\ \E n \in 0..MaxLines : arg \in [1..n -> SourceLines]
    /\ out = <<>>

\* out := Lex(arg)
LexSource ==
    /\ pc = "lex"
    /\ out' = Lex(arg)
    /\ pc' = "lexed"
    /\ UNCHANGED <<program, c, compiled, executeVars, arg>>

SpecLex == InitLex /\ [][LexSource]_vars

CountKind(toks, kind) == Len(SelectSeq(toks, LAMBDA t : t = kind))

\* C20: for every source text, with indentation errors, unterminated hooks
\* or unterminated delimiters too, the token stream holds as many DEDENT as
\* INDENT tokens, and in no prefix of it do the DEDENTs outnumber the
\* INDENTs.
C20_IndentsAndDedentsBalanced ==
    pc = "lexed" =>
        /\ CountKind(out.toks, "INDENT") = CountKind(out.toks, "DEDENT")
        /\ \A n \in 0..Len(out.toks) :
              CountKind(SubSeq(out.toks, 1, n), "DEDENT")
                  <= CountKind(SubSeq(out.toks, 1, n), "INDENT")

\* a block opened after a colon, an unexpected deeper indentation and a hook
\* left open at the end: two INDENTs, two errors, and both blocks closed at EOF
C20_OpenBlocksClosedAtEOF ==
    /\ pc = "lexed"
    /\ arg = <<SourceLine(0, "colon"), SourceLine(1, "stmt"), SourceLine(2, "hookOpen")>>
    /\ out.errs = <<"E_PARSE_INDENT", "E_PARSE_UNTERMINATED_HOOK">>
    /\ out.toks = <<"TOKEN", "NL", "INDENT", "TOKEN", "NL", "INDENT", "TOKEN", "NL",
                    "DEDENT", "DEDENT", "EOF">>

\* a dedent to a level that was never opened: one DEDENT and E_PARSE_DEDENT
C20_MismatchedDedent ==
    /\ pc = "lexed"
    /\ arg = <<SourceLine(0, "colon"), SourceLine(2, "stmt"), SourceLine(1, "stmt")>>
    /\ out.errs = <<"E_PARSE_DEDENT">>
    /\ CountKind(out.toks, "INDENT") = 1

(***************************************************************************)
(* The lexer call by call.  Lex calls Next until it returns EOF; between   *)
(* two calls the lexer keeps its queue (the field toks of lx), the line it *)
(* stands at, the part of that line it has not read yet and eofProcessed.  *)
(* Every line of the source ends with a newline.                           *)
(***************************************************************************)
MaxNextLines == 2

\* more tokens than a source of MaxNextLines lines can give
MaxReturned == 4 * MaxNextLines + 2

NewCursor == [lx |-> NewLexer, at |-> 1, part |-> "start", eofProcessed |-> FALSE]

\* pop that returns the head of the queue and leaves it queued
popKeepingHead(cur) == [cur |-> cur, tok |-> Head(cur.lx.toks)]

pop(cur) == [cur |-> [cur EXCEPT !.lx.toks = Tail(@)], tok |-> Head(cur.lx.toks)]

emitEOFToken(cur) ==
    LET cur1 == IF ~cur.eofProcessed
                THEN [cur EXCEPT !.eofProcessed = TRUE, !.lx = closeAtEOF(@)]
                ELSE cur
    IN IF cur1.lx.toks # <<>> THEN pop(cur1) ELSE [cur |-> cur1, tok |-> "EOF"]

\* the for loop of Next
RECURSIVE nextLoop(_, _)
nextLoop(cur, src) ==
    IF cur.at > Len(src) THEN emitEOFToken(cur)
    ELSE LET line == src[cur.at]
         IN CASE cur.part = "start" ->
                    LET cur1 == [cur EXCEPT !.lx = handleLineStart(@, line), !.part = "body"]
                    IN IF cur1.lx.toks # <<>> THEN pop(cur1) ELSE nextLoop(cur1, src)
              [] cur.part = "body" ->
                    IF line.body = "blank" THEN nextLoop([cur EXCEPT !.part = "nl"], src)
                    ELSE pop([cur EXCEPT !.lx = scanTokens(@, line.body), !.part = "nl"])
              [] OTHER ->
                    LET cur1 == [cur EXCEPT !.lx = handleNewline(@), !.at = @ + 1,
                                            !.part = "start"]
                    IN IF cur1.lx.toks # <<>> THEN pop(cur1) ELSE nextLoop(cur1, src)

LexerNext(cur, src) == IF cur.lx.toks # <<>> THEN pop(cur) ELSE nextLoop(cur, src)

InitNext ==
    /\ NoCompile("lexing")
    /\ \E n \in 0..MaxNextLines : arg \in [1..n -> SourceLines]
    /\ out = [cur |-> NewCursor, toks |-> <<>>]

\* one turn of the loop of Lex: tok := lx.Next(); toks = append(toks, tok)
LexNext ==
    /\ pc = "lexing"
    /\ Len(out.toks) < MaxReturned
    /\ LET r == LexerNext(out.cur, arg)
       IN /\ out' = [cur |-> r.cur, toks |-> Append(out.toks, r.tok)]
          /\ pc' = IF r.tok = "EOF" THEN "atEOF" ELSE "lexing"
    /\ UNCHANGED <<program, c, compiled, executeVars, arg>>

\* Lex is one goroutine: its loop goes on until it breaks
SpecNext == InitNext /\ [][LexNext]_vars /\ WF_vars(LexNext)

\* C21: for every source text the loop of Lex ends, and when it has ended
\* the tokens it returns hold exactly one EOF, as their last token; while
\* the loop runs no EOF has been returned and the bound MaxReturned is not
\* reached.
C21_LexEndsWithOneEOF ==
    /\ <>(pc = "atEOF")
    /\ [](pc = "atEOF" =>
            /\ CountKind(out.toks, "EOF") = 1
            /\ out.toks[Len(out.toks)] = "EOF")
    /\ [](pc = "lexing" =>
            /\ CountKind(out.toks, "EOF") = 0
            /\ Len(out.toks) < MaxReturned)

\* a block left open at the end of the text: its DEDENT is returned by a
\* call of its own, before EOF, and the stream is the one Lex builds
C21_DedentReturnedBeforeEOF ==
    /\ pc = "atEOF"
    /\ arg = <<SourceLine(0, "colon"), SourceLine(1, "hookOpen")>>
    /\ out.toks = <<"TOKEN", "NL", "INDENT", "TOKEN", "NL", "DEDENT", "EOF">>
    /\ out.toks = Lex(arg).toks
    /\ out.cur.eofProcessed

\* the event after the i-th one is the NL token of the newline read there
FollowedByNL(ev, i) == i < Len(ev) /\ ev[i + 1].kind = "NL"

OpensHook(ev, i) ==
    /\ ev[i].kind = "TOKEN"
    /\ ev[i].hook = 1
    /\ (i = 1 \/ ev[i - 1].hook = 0)

\* the event of the `}` that closes the hook body opened at i
ClosesHook(ev, i, j) ==
    /\ i < j
    /\ ev[j].kind = "TOKEN"
    /\ ev[j].hook = 0
    /\ \A k \in i..(j - 1) : ev[k].hook > 0

\* C23: no INDENT or DEDENT is emitted while hookDepth is above zero, the
\* indent stack changes only with an INDENT or DEDENT emitted at hookDepth
\* zero, and the stack at the closing brace of a hook body is the stack at
\* its opening brace, whatever the indentation of the lines in between.
C23_HookBodyLeavesIndentStack ==
    pc = "lexed" =>
        /\ \A i \in 1..Len(out.ev) :
              out.ev[i].kind \in {"INDENT", "DEDENT"} => out.ev[i].hook = 0
        /\ \A i \in 1..Len(out.ev) :
              out.ev[i].stack # (IF i = 1 THEN <<0>> ELSE out.ev[i - 1].stack) =>
                  /\ out.ev[i].kind \in {"INDENT", "DEDENT"}
                  /\ out.ev[i].hook = 0
        /\ \A i, j \in 1..Len(out.ev) :
              OpensHook(out.ev, i) /\ ClosesHook(out.ev, i, j) =>
                  \A k \in i..j : out.ev[k].stack = out.ev[i].stack

\* a hook body inside a block, its line indented deeper than the hook, and
\* closed by an unindented `}`: the stack <<0, 1>> stays as it is
C23_IndentedHookBody ==
    /\ pc = "lexed"
    /\ arg = <<SourceLine(1, "hookOpen"), SourceLine(2, "stmt"), SourceLine(0, "braceClose")>>
    /\ out.toks = <<"INDENT", "TOKEN", "NL", "TOKEN", "NL", "TOKEN", "NL", "DEDENT", "EOF">>
    /\ OpensHook(out.ev, 2)
    /\ ClosesHook(out.ev, 2, 8)
    /\ out.ev[8].stack = <<0, 1>>

(***************************************************************************)
(* The parser, statement by statement (src/internal/parser/parser.go).     *)
(* The parser state ps holds the tokens, the position of cur, the errors   *)
(* recorded, and loops: one record per iteration of a parsing loop, with   *)
(* the position before and after it.  A `for cond` loop whose iteration    *)
(* leaves the parser where it was would repeat that iteration for ever;    *)
(* the loops of the model stop there, with the iteration on record.        *)
(***************************************************************************)
MaxSuffix == 2

ErrUnexpectedToken == "E_PARSE_UNEXPECTED_TOKEN"
ErrInvalidLine == "E_PARSE_INVALID_LINE"
ErrInvalidExpr == "E_PARSE_INVALID_EXPR"

precLowest == 0
precOr == 1
precAnd == 2
precCompare == 3
precAdd == 4
precMul == 5
precPrefix == 6

\* infixPrec: -1 stands for `0, false`
infixPrec(kind) ==
    CASE kind = "OP_OR" -> precOr
      [] kind = "OP_AND" -> precAnd
      [] kind \in {"OP_EQ", "OP_NE", "OP_LT", "OP_LTE", "OP_GT", "OP_GTE", "OP_IN",
                   "OP_CONTAINS", "OP_TILDE"} -> precCompare
      [] kind \in {"OP_PLUS", "OP_MINUS"} -> precAdd
      [] kind \in {"OP_MUL", "OP_DIV", "OP_MOD"} -> precMul
      [] OTHER -> -1

Kind(ps) == Cur(ps).Kind

\* one iteration of the loop `name`, from the parser ps0 to the parser ps1
Turn(ps0, ps1, name) ==
    [ps1 EXCEPT !.loops = Append(@, [loop |-> name, from |-> ps0.at, to |-> ps1.at])]

\* expect, for its effect on the parser
expected(ps, kind, msg) == expect(ps, kind, msg).ps

\* an error at cur, and cur consumed: the default branches of parsePrimary,
\* parseKey, expectFieldName and parseObjectKey
unexpected(ps, code, msg) == advance(addError(ps, code, msg))

parseKey(ps) ==
    IF Kind(ps) \in {"IDENT", "BARE_KEY", "STRING"} THEN advance(ps)
    ELSE unexpected(ps, ErrExpectedToken, "expected key")

expectFieldName(ps) ==
    IF Kind(ps) \in {"IDENT", "KW_REQ", "KW_HEADER", "KW_QUERY"} THEN advance(ps)
    ELSE unexpected(ps, ErrExpectedToken, "expected field name")

parseObjectKey(ps) ==
    IF Kind(ps) \in {"IDENT", "STRING"} THEN advance(ps)
    ELSE unexpected(ps, ErrExpectedToken, "expected object key")

\* a call whose result the caller goes on with: x is evaluated to its end,
\* then F is applied to the value
Then(x, F(_)) == IF x = x THEN F(x) ELSE F(x)

\* an expression is parsed to the parser after it and lv, whether
\* exprToLValue accepts the expression
RECURSIVE parseExpr(_, _)
RECURSIVE infixLoop(_, _)
RECURSIVE parsePostfix(_)
RECURSIVE parsePrefix(_)
RECURSIVE parsePrimary(_)
RECURSIVE listLoop(_, _, _)
RECURSIVE pairLoop(_)

\* the loop of parseCall and of parseArrayLit: expressions separated by
\* commas, up to the closing token
listLoop(ps, close, name) ==
    LET After(e) ==
            LET more == Kind(e.ps) = "COMMA" /\ Kind(advance(e.ps)) # close
                ps1 == Turn(ps, IF Kind(e.ps) = "COMMA" THEN advance(e.ps) ELSE e.ps, name)
            IN IF more /\ ps1.at # ps.at THEN listLoop(ps1, close, name) ELSE ps1
    IN Then(parseExpr(ps, precLowest), After)

parseCall(ps) ==
    LET ps1 == expected(ps, "LPAREN", "expected '('")
        After(ps2) == expected(ps2, "RPAREN", "expected ')' after call")
    IN IF Kind(ps1) # "RPAREN" THEN Then(listLoop(ps1, "RPAREN", "parseCall"), After)
       ELSE After(ps1)

parseField(ps) == expectFieldName(expected(ps, "DOT", "expected '.'"))

parseIndex(ps) ==
    LET After(e) == expected(e.ps, "RBRACK", "expected ']'")
    IN Then(parseExpr(expected(ps, "LBRACK", "expected '['"), precLowest), After)

parseArrayLit(ps) ==
    LET ps1 == expected(ps, "LBRACK", "expected '['")
        After(ps2) == expected(ps2, "RBRACK", "expected ']'")
    IN IF Kind(ps1) # "RBRACK" THEN Then(listLoop(ps1, "RBRACK", "parseArrayLit"), After)
       ELSE After(ps1)

\* the loop of parseObjectLit
pairLoop(ps) ==
    LET k == expected(parseObjectKey(ps), "COLON", "expected ':' after object key")
        After(e) ==
            LET more == Kind(e.ps) = "COMMA" /\ Kind(advance(e.ps)) # "RBRACE"
                ps1 == Turn(ps, IF Kind(e.ps) = "COMMA" THEN advance(e.ps) ELSE e.ps,
                            "parseObjectLit")
            IN IF more /\ ps1.at # ps.at THEN pairLoop(ps1) ELSE ps1
    IN Then(parseExpr(k, precLowest), After)

parseObjectLit(ps) ==
    LET ps1 == expected(ps, "LBRACE", "expected '{'")
        After(ps2) == expected(ps2, "RBRACE", "expected '}'")
    IN IF Kind(ps1) # "RBRACE" THEN Then(pairLoop(ps1), After) ELSE After(ps1)

\* parsePrimary whose default branch leaves the token in place
parsePrimaryKeepingToken(ps) ==
    LET Closed(e) == [ps |-> expected(e.ps, "RPAREN", "expected ')'"), lv |-> FALSE]
    IN CASE Kind(ps) \in {"IDENT", "KW_REQ", "KW_HEADER", "KW_QUERY", "DOLLAR"} ->
               [ps |-> advance(ps), lv |-> TRUE]
         [] Kind(ps) \in {"STRING", "NUMBER", "KW_TRUE", "KW_FALSE", "KW_NULL"} ->
               [ps |-> advance(ps), lv |-> FALSE]
         [] Kind(ps) = "LPAREN" -> Then(parseExpr(advance(ps), precLowest), Closed)
         [] Kind(ps) = "LBRACK" -> [ps |-> parseArrayLit(ps), lv |-> FALSE]
         [] Kind(ps) = "LBRACE" -> [ps |-> parseObjectLit(ps), lv |-> FALSE]
         [] OTHER ->
               [ps |-> addError(ps, ErrInvalidExpr, "unexpected token in expression"),
                lv |-> FALSE]

parsePrimary(ps) ==
    LET Closed(e) == [ps |-> expected(e.ps, "RPAREN", "expected ')'"), lv |-> FALSE]
    IN CASE Kind(ps) \in {"IDENT", "KW_REQ", "KW_HEADER", "KW_QUERY", "DOLLAR"} ->
               [ps |-> advance(ps), lv |-> TRUE]
         [] Kind(ps) \in {"STRING", "NUMBER", "KW_TRUE", "KW_FALSE", "KW_NULL"} ->
               [ps |-> advance(ps), lv |-> FALSE]
         [] Kind(ps) = "LPAREN" -> Then(parseExpr(advance(ps), precLowest), Closed)
         [] Kind(ps) = "LBRACK" -> [ps |-> parseArrayLit(ps), lv |-> FALSE]
         [] Kind(ps) = "LBRACE" -> [ps |-> parseObjectLit(ps), lv |-> FALSE]
         [] OTHER ->
               [ps |-> unexpected(ps, ErrInvalidExpr, "unexpected token in expression"),
                lv |-> FALSE]

parsePrefix(ps) ==
    IF Kind(ps) \in {"OP_NOT", "OP_PLUS", "OP_MINUS"}
    THEN [ps |-> parseExpr(advance(ps), precPrefix).ps, lv |-> FALSE]
    ELSE parsePrimary(ps)

\* a call is no assignment target; a field or an index of a target is one
parsePostfix(left) ==
    LET ps == left.ps
        After(next) ==
            LET turned == [next EXCEPT !.ps = Turn(ps, next.ps, "parsePostfix")]
            IN IF turned.ps.at = ps.at THEN turned ELSE parsePostfix(turned)
    IN IF Kind(ps) \notin {"LPAREN", "DOT", "LBRACK"} THEN left
       ELSE Then(CASE Kind(ps) = "LPAREN" -> [ps |-> parseCall(ps), lv |-> FALSE]
                   [] Kind(ps) = "DOT" -> [ps |-> parseField(ps), lv |-> left.lv]
                   [] OTHER -> [ps |-> parseIndex(ps), lv |-> left.lv],
                 After)

\* the loop of parseExpr over the infix operators
infixLoop(left, min) ==
    LET ps == left.ps
        prec == infixPrec(Kind(ps))
        After(next) ==
            LET turned == [next EXCEPT !.ps = Turn(ps, next.ps, "parseExpr")]
            IN IF turned.ps.at = ps.at THEN turned ELSE infixLoop(turned, min)
        Right(right) == Then(parsePostfix([ps |-> right.ps, lv |-> FALSE]), After)
    IN IF prec = -1 \/ prec < min THEN left
       ELSE Then(parseExpr(advance(ps), prec + 1), Right)

parseExpr(ps, min) ==
    LET Infix(left) == infixLoop(left, min)
        Postfix(left) == Then(parsePostfix(left), Infix)
    IN Then(parsePrefix(ps), Postfix)

RECURSIVE syncTop(_)
syncTop(ps) ==
    IF Kind(ps) \notin {"NL", "EOF"} THEN syncTop(Turn(ps, advance(ps), "syncTop"))
    ELSE IF Kind(ps) = "NL" THEN advance(ps)
    ELSE ps

parseSetting(ps) ==
    IF Kind(ps) = "KW_BASE"
    THEN expected(advance(ps), "STRING", "expected string literal after base")
    ELSE expected(expected(ps, "KW_TIMEOUT", "expected timeout"),
                  "DURATION", "expected duration literal after timeout")

parseImport(ps) ==
    expected(expected(ps, "KW_IMPORT", "expected import"),
             "STRING", "expected string literal after import")

parseLet(ps) ==
    LET ps1 == expected(ps, "KW_LET", "expected let")
        ps2 == expected(ps1, "IDENT", "expected identifier after let")
        ps3 == expected(ps2, "ASSIGN", "expected '=' in let statement")
    IN parseExpr(ps3, precLowest).ps

HttpMethods ==
    {"KW_GET", "KW_POST_M", "KW_PUT", "KW_PATCH", "KW_DELETE", "KW_HEAD", "KW_OPTIONS"}

parseHttpLine(ps) ==
    LET ps1 == IF Kind(ps) \in HttpMethods THEN ps
               ELSE addError(ps, ErrExpectedToken, "expected HTTP method")
    IN expected(advance(ps1), "PATH", "expected path or URL after method")

parseDirective(ps) ==
    CASE Kind(ps) = "KW_JSON" -> parseObjectLit(advance(ps))
      [] Kind(ps) = "KW_HEADER" ->
            parseExpr(expected(parseKey(advance(ps)), "ASSIGN", "expected '=' after header key"),
                      precLowest).ps
      [] Kind(ps) = "KW_QUERY" ->
            parseExpr(expected(parseKey(advance(ps)), "ASSIGN", "expected '=' after query key"),
                      precLowest).ps
      [] Kind(ps) = "KW_AUTH" ->
            parseExpr(expected(advance(ps), "KW_BEARER", "expected bearer auth"),
                      precLowest).ps
      [] OTHER -> addError(ps, ErrInvalidLine, "invalid directive")

parseHookStmt(ps) ==
    LET After(left) ==
            LET Assigned(val) ==
                    IF left.lv THEN val.ps
                    ELSE addError(val.ps, ErrInvalidLine, "invalid assignment target")
            IN IF Kind(left.ps) = "ASSIGN"
               THEN Then(parseExpr(advance(left.ps), precLowest), Assigned)
               ELSE left.ps
    IN IF Kind(ps) = "KW_LET" THEN parseLet(ps)
       ELSE Then(parseExpr(ps, precLowest), After)

\* the loop of parseHookBlock over the statements of the hook
RECURSIVE hookStmts(_)
hookStmts(ps) ==
    LET After(ps1) == IF ps1.at = ps.at THEN ps1 ELSE hookStmts(ps1)
        Separated(stmt) ==
            After(Turn(ps,
                       IF Kind(stmt) \in {"NL", "SEMICOLON"} THEN advance(stmt) ELSE stmt,
                       "parseHookBlock"))
    IN IF Kind(ps) \in {"RBRACE", "EOF"} THEN ps
       ELSE IF Kind(ps) \in {"NL", "SEMICOLON"}
       THEN After(Turn(ps, advance(ps), "parseHookBlock"))
       ELSE Then(parseHookStmt(ps), Separated)

parseHookBlock(ps) ==
    LET ps1 == IF Kind(ps) \in {"KW_PRE", "KW_POST"} THEN advance(ps)
               ELSE addError(ps, ErrExpectedToken, "expected pre/post hook")
        ps2 == expected(ps1, "KW_HOOK", "expected 'hook'")
        ps3 == expected(ps2, "LBRACE", "expected '{' to start hook")
        Ended(ps4) == IF Kind(ps4) = "NL" THEN advance(ps4) ELSE ps4
        After(body) == Ended(expected(body, "RBRACE", "expected '}' to end hook"))
    IN Then(hookStmts(ps3), After)

parseAssertLine(ps) == parseExpr(expected(ps, "QUESTION", "expected '?'"), precLowest).ps

\* one line of a request block
reqLine(ps) ==
    LET Directive(ps1) == expected(ps1, "NL", "expected newline after directive")
        Assertion(ps1) == expected(ps1, "NL", "expected newline after assertion")
        Let(ps1) == expected(ps1, "NL", "expected newline after let")
    IN CASE Kind(ps) = "NL" -> advance(ps)
         [] Kind(ps) \in HttpMethods ->
               expected(parseHttpLine(ps), "NL", "expected newline after http line")
         [] Kind(ps) \in {"KW_JSON", "KW_HEADER", "KW_QUERY", "KW_AUTH"} ->
               Then(parseDirective(ps), Directive)
         [] Kind(ps) \in {"KW_PRE", "KW_POST"} -> parseHookBlock(ps)
         [] Kind(ps) = "QUESTION" -> Then(parseAssertLine(ps), Assertion)
         [] Kind(ps) = "KW_LET" -> Then(parseLet(ps), Let)
         [] OTHER -> syncLine(addError(ps, ErrInvalidLine, "invalid request line"))

\* the loop of parseReqDecl over the lines of the block
RECURSIVE reqLines(_)
reqLines(ps) ==
    LET After(l) ==
            LET ps1 == Turn(ps, l, "parseReqDecl")
            IN IF ps1.at = ps.at THEN ps1 ELSE reqLines(ps1)
    IN IF Kind(ps) \in {"DEDENT", "EOF"} THEN ps
       ELSE Then(reqLine(ps), After)

parseReqDecl(ps) ==
    LET ps1 == expected(ps, "KW_REQ", "expected req")
        ps2 == expected(ps1, "IDENT", "expected request name")
        ps3 == IF Kind(ps2) = "LPAREN"
               THEN expected(expected(advance(ps2), "IDENT", "expected parent request name"),
                             "RPAREN", "expected ')' after parent name")
               ELSE ps2
        ps4 == expected(ps3, "COLON", "expected ':' after req header")
        ps5 == expected(ps4, "NL", "expected newline after req header")
        ps6 == expected(ps5, "INDENT", "expected indented req block")
        After(body) == expected(body, "DEDENT", "expected end of req block")
    IN Then(reqLines(ps6), After)

\* the loop of parseFlowDecl over the lets before the chain
RECURSIVE flowPrelude(_)
flowPrelude(ps) ==
    LET After(l) ==
            LET ps1 == Turn(ps, l, "parseFlowDecl prelude")
            IN IF ps1.at = ps.at THEN ps1 ELSE flowPrelude(ps1)
        Let(ps1) == After(expected(ps1, "NL", "expected newline after let"))
    IN IF Kind(ps) \notin {"KW_LET", "NL"} THEN ps
       ELSE IF Kind(ps) = "NL" THEN After(advance(ps))
       ELSE Then(parseLet(ps), Let)

\* the chain of parseFlowDecl, for its effect on the parser
flowChain(ps) ==
    IF Kind(ps) = "IDENT"
    THEN expected(parseFlowChainLine(ps).ps, "NL", "expected newline after chain line")
    ELSE LET ps1 == addError(ps, ErrInvalidFlow, "flow missing chain line")
         IN IF Kind(ps1) \notin {"DEDENT", "EOF"} THEN syncLine(ps1) ELSE ps1

\* the loop of parseFlowDecl over the assertions after the chain
RECURSIVE flowAssertLines(_)
flowAssertLines(ps) ==
    LET After(l) ==
            LET ps1 == Turn(ps, l, "parseFlowDecl asserts")
            IN IF ps1.at = ps.at THEN ps1 ELSE flowAssertLines(ps1)
        Assertion(ps1) == After(expected(ps1, "NL", "expected newline after assertion"))
    IN IF Kind(ps) \in {"DEDENT", "EOF"} THEN ps
       ELSE IF Kind(ps) = "NL" THEN After(advance(ps))
       ELSE IF Kind(ps) # "QUESTION"
       THEN Then(syncLine(addError(ps, ErrInvalidFlow,
                                   "only assertions allowed after flow chain")),
                 After)
       ELSE Then(parseAssertLine(ps), Assertion)

parseFlowDecl(ps) ==
    LET ps1 == expected(ps, "KW_FLOW", "expected flow")
        ps2 == expected(ps1, "STRING", "expected flow name string")
        ps3 == expected(ps2, "COLON", "expected ':' after flow name")
        ps4 == expected(ps3, "NL", "expected newline after flow header")
        ps5 == expected(ps4, "INDENT", "expected indented flow block")
        After(body) == expected(body, "DEDENT", "expected end of flow block")
        Asserts(chain) == Then(flowAssertLines(chain), After)
        Chain(prelude) == Then(flowChain(prelude), Asserts)
    IN Then(flowPrelude(ps5), Chain)

\* parseTopStmt: the parser after the statement and the statement, "nil"
\* where the function returns nil
parseTopStmt(ps) ==
    LET Let(ps1) == [ps |-> expected(ps1, "NL", "expected newline after let"),
                     stmt |-> "LetStmt"]
    IN CASE Kind(ps) \in {"KW_BASE", "KW_TIMEOUT"} ->
               [ps |-> expected(parseSetting(ps), "NL", "expected newline after setting"),
                stmt |-> "SettingStmt"]
         [] Kind(ps) = "KW_IMPORT" ->
               [ps |-> expected(parseImport(ps), "NL", "expected newline after import"),
                stmt |-> "ImportStmt"]
         [] Kind(ps) = "KW_LET" -> Then(parseLet(ps), Let)
         [] Kind(ps) = "KW_REQ" -> [ps |-> parseReqDecl(ps), stmt |-> "ReqDecl"]
         [] Kind(ps) = "KW_FLOW" -> [ps |-> parseFlowDecl(ps), stmt |-> "FlowDecl"]
         [] OTHER ->
               [ps |-> addError(ps, ErrUnexpectedToken, "unexpected token at top level"),
                stmt |-> "nil"]

\* the token kinds a stream is drawn from
ParseKinds ==
    {"NL", "INDENT", "DEDENT", "KW_LET", "KW_REQ", "KW_FLOW", "KW_PRE", "KW_GET",
     "KW_HEADER", "IDENT", "STRING", "COLON", "ASSIGN", "ARROW", "QUESTION", "SEMICOLON",
     "LPAREN", "RPAREN", "COMMA", "LBRACE", "RBRACE", "LBRACK", "RBRACK", "DOT",
     "OP_EQ", "OP_NOT"}

ReqHeader == <<"KW_REQ", "IDENT", "COLON", "NL", "INDENT">>
FlowHeader == <<"KW_FLOW", "STRING", "COLON", "NL", "INDENT">>

\* where a malformed stream starts: at top level, in a request block, in a
\* hook body, in an object literal, in a flow before and after its chain, in
\* an expression, in the arguments of a call
Contexts ==
    {<<>>,
     ReqHeader,
     ReqHeader \o <<"KW_PRE", "KW_HOOK", "LBRACE">>,
     ReqHeader \o <<"KW_JSON", "LBRACE">>,
     FlowHeader,
     FlowHeader \o <<"IDENT", "ARROW", "IDENT", "NL">>,
     <<"KW_LET", "IDENT", "ASSIGN">>,
     <<"KW_LET", "IDENT", "ASSIGN", "IDENT", "LPAREN">>}

LongestContext == CHOOSE n \in {Len(x) : x \in Contexts} : \A x \in Contexts : Len(x) <= n

\* no parse of the streams drawn takes as many loop iterations as this
MaxTurns == 4 * (LongestContext + MaxSuffix)

TokensOf(kinds) == [i \in 1..Len(kinds) |-> Token(kinds[i], "", i)]

KindsOf(toks) == [i \in 1..Len(toks) |-> toks[i].Kind]

InitParseProgram ==
    /\ NoCompile("parsing")
    /\ \E ctx \in Contexts, n \in 0..MaxSuffix :
          \E suffix \in [1..n -> ParseKinds] : arg = TokensOf(ctx \o suffix)
    /\ out = [ps |-> NewParser(arg), stmts |-> <<>>]

\* one iteration of the loop of ParseProgram
ParseProgramTurn ==
    /\ pc = "parsing"
    /\ Kind(out.ps) # "EOF"
    /\ Len(out.ps.loops) < MaxTurns
    /\ LET ps == out.ps
           After(r) ==
               [ps |-> Turn(ps, r.ps, "ParseProgram"),
                stmts |-> IF r.stmt = "nil" THEN out.stmts ELSE Append(out.stmts, r.stmt)]
           Synced(top) == IF top.stmt # "nil" THEN After(top)
                          ELSE After([ps |-> syncTop(top.ps), stmt |-> "nil"])
       IN out' = IF Kind(ps) = "NL" THEN After([ps |-> advance(ps), stmt |-> "nil"])
                 ELSE Then(parseTopStmt(ps), Synced)
    /\ UNCHANGED <<program, c, compiled, executeVars, arg, pc>>

\* ParseProgram returns the program
ParseProgramReturn ==
    /\ pc = "parsing"
    /\ Kind(out.ps) = "EOF"
    /\ pc' = "parsed"
    /\ UNCHANGED <<program, c, compiled, executeVars, arg, out>>

NextParseProgram == ParseProgramTurn \/ ParseProgramReturn

\* ENABLED <<NextParseProgram>>_vars, written out: a turn always adds its
\* record to loops, and the return changes pc
ParseProgramEnabled ==
    /\ pc = "parsing"
    /\ Kind(out.ps) = "EOF" \/ Len(out.ps.loops) < MaxTurns

\* ParseProgram runs on: weak fairness of NextParseProgram, with its
\* enabling condition written out
SpecParseProgram ==
    /\ InitParseProgram
    /\ [][NextParseProgram]_vars
    /\ ([]<>~ParseProgramEnabled \/ []<><<NextParseProgram>>_vars)

\* the tokens from the error e to the position at are on one line
SameLine(toks, e, at) ==
    /\ e.Column <= at
    /\ \A k \in e.Column..(at - 1) : k <= Len(toks) => toks[k].Kind # "NL"

\* C24: for every token stream parsing ends and returns a program: every
\* iteration of every parsing loop consumes a token or is at EOF, every
\* token skipped by syncLine or syncTop follows an error recorded on its
\* line, and ParseProgram returns with every token consumed.
C24_ParseTerminates ==
    /\ <>(pc = "parsed")
    /\ [](\A i \in 1..Len(out.ps.loops) :
            LET r == out.ps.loops[i]
            IN /\ r.to > r.from \/ r.from > Len(arg)
               /\ r.loop \in {"syncLine", "syncTop"} =>
                     \E j \in 1..Len(out.ps.errs) : SameLine(arg, out.ps.errs[j], r.from))
    /\ [](pc = "parsing" => Len(out.ps.loops) < MaxTurns)
    /\ [](pc = "parsed" => out.ps.at = Len(arg) + 1)


\* a hook body holding `)` and a DEDENT and never closed: both are reported
\* as invalid expressions and consumed by the loop of parseHookBlock, the
\* missing `}` and the missing DEDENT are reported at EOF, and the request
\* is returned
C24_StrayTokensInHookBody ==
    /\ pc = "parsed"
    /\ KindsOf(arg) = ReqHeader \o <<"KW_PRE", "KW_HOOK", "LBRACE", "RPAREN", "DEDENT">>
    /\ out.stmts = <<"ReqDecl">>
    /\ out.ps.at = Len(arg) + 1
    /\ \E i \in 1..Len(out.ps.errs) :
          out.ps.errs[i].Code = ErrInvalidExpr /\ out.ps.errs[i].Column = 9
    /\ \E i \in 1..Len(out.ps.errs) :
          out.ps.errs[i].Code = ErrInvalidExpr /\ out.ps.errs[i].Column = 10
    /\ \E i \in 1..Len(out.ps.loops) :
          out.ps.loops[i] = [loop |-> "parseHookBlock", from |-> 10, to |-> 11]

\* what the identifier name evaluates to in a flow assertion of the state
FlowIdent(name) == evalExpr(IdentExpr(name), BareContext(flowVars, flowViews), heap)

\* the value v is an object holding the snapshot of the binding b
IsSnapshotOf(v, b) ==
    /\ v.err = ""
    /\ v.val.t = "map"
    /\ v.heap[v.val.r] = [res |-> b.Res, req |-> b.Req,
                          status |-> VNum(b.Status), header |-> b.Header]

\* C25 as stated: where the assertions of a flow are evaluated, an
\* identifier that is the name of a binding evaluates to the snapshot of
\* the binding, also when a flow variable has the name.
C25_BindingShadowsFlowVariable ==
    pc = "flowAsserts" =>
        \A n \in DOMAIN flowViews : IsSnapshotOf(FlowIdent(n), flowViews[n])

\* C25 (amended): where the assertions of a flow are evaluated, an
\* identifier that is the name of a flow variable evaluates to the
\* variable, also when a binding has the name; only a name of no flow
\* variable evaluates to the snapshot of the binding of that name.
C25_FlowVariableShadowsBinding ==
    pc = "flowAsserts" =>
        /\ \A n \in DOMAIN flowVars :
              FlowIdent(n).err = "" /\ FlowIdent(n).val = flowVars[n]
        /\ \A n \in DOMAIN flowViews \ DOMAIN flowVars :
              IsSnapshotOf(FlowIdent(n), flowViews[n])

\* flow h-shadow, `login:token -> r`, ran: the assertion `token == "abc"`
\* read the variable set by the let of login and held, `token.status == 200`
\* failed on a string, and `r.status == 200` read the binding r
C25_AliasNamedLikeLet ==
    /\ pc = "done"
    /\ Len(res.Flows) = 1
    /\ res.Flows[1].Name = "h-shadow"
    /\ Len(res.Flows[1].Steps) = 2
    /\ "token" \in DOMAIN flowVars \cap DOMAIN flowViews
    /\ "r" \in DOMAIN flowViews \ DOMAIN flowVars
    /\ Len(res.Diags) = 1
    /\ res.Diags[1].Code = "E_RUNTIME_EXPRESSION"
    /\ res.Diags[1].Line = 113

\* C26: Execute of a plan without flows dispatches no request and returns
\* no diagnostic and no flow result, whatever the global lets and requests
\* of the plan.
C26_PlanWithoutFlowsIsNoOp ==
    (pc = "done" /\ ~Plan.nil /\ Plan.Flows = <<>>) =>
        /\ res.Diags = <<>>
        /\ res.Flows = <<>>
        /\ \A i \in 1..Len(log) : log[i].kind # "dispatch"

\* the program with `let bad = nope` and no flow compiled, and Execute
\* returned the diagnostic of the global let
C26_GlobalLetFailedWithoutFlows ==
    /\ pc = "done"
    /\ ~Plan.nil
    /\ Plan.Flows = <<>>
    /\ Len(Plan.Globals) = 3
    /\ res.Flows = <<>>
    /\ Len(res.Diags) = 1
    /\ res.Diags[1].Code = "E_RUNTIME_EXPRESSION"
    /\ res.Diags[1].Line = 5
    /\ log = <<>>


(***************************************************************************)
(* A step that ended with a diagnostic: the step loop has just gone on     *)
(* from it, and the last thing that happened is the diagnostic of that     *)
(* step.                                                                   *)
(***************************************************************************)
StepFailed ==
    /\ pc \in {"step", "flowAsserts"}
    /\ si > 1
    /\ log # <<>>
    /\ log[Len(log)].kind = "diag"
    /\ log[Len(log)].fi = fi
    /\ log[Len(log)].si = si - 1

\* C27: a step that ends with a diagnostic leaves the flow's state as it was
\* when the step began: no step result, no binding, and the variables of the
\* flow are the ones the step started with, with the values they had.
C27_FailedStepLeavesFlowState ==
    StepFailed =>
        /\ Len(fr.Steps) = stepStart.steps
        /\ DOMAIN flowViews = stepStart.views
        /\ Marshalled(flowVars, heap) = stepStart.vars

\* flow c-child, child answered 201: the post hook of child assigned seen
\* before the assertion on line 38 failed, and seen stays among the variables
\* of the flow, for the flow's assertions to read
C27_PostHookAssignmentStays ==
    /\ StepFailed
    /\ pc = "flowAsserts"
    /\ CurFlow.Name = "c-child"
    /\ si = 2
    /\ log[Len(log)].line = 38
    /\ Len(fr.Steps) = 0 /\ stepStart.steps = 0
    /\ DOMAIN flowViews = {} /\ stepStart.views = {}
    /\ "seen" \in DOMAIN flowVars
    /\ "seen" \notin DOMAIN stepStart.vars
    /\ flowVars["seen"] = VStr("child")


(***************************************************************************)
(* The response as the server sent it, whatever reference holds it.        *)
(***************************************************************************)
AsReceived(v) == Marshal(v, heap) = [t |-> "map", m |-> ResponseBody]

\* C28: once a step's response is bound, the value read through # and res in
\* that step, and through <binding>.res from then on, is the response as it
\* was received: no hook statement changes it.
C28_ResponseNeverMutated ==
    /\ pc \in {"post", "checks"} => AsReceived(rctx.resJSON)
    /\ pc \in {"step", "pre", "directives", "dispatch", "post", "checks", "flowAsserts"} =>
          \A b \in DOMAIN flowViews : AsReceived(flowViews[b].Res)

\* flow m-echo, both steps answered 200: the post hook of echo has set
\* snap = # and snap.value = "changed", and the pre hook of touch
\* snap.token = "t"; the binding e reads the changed body, and the flow's
\* assertion e.res.value == "child" fails
C28_ResponseChangedThroughVariable ==
    /\ pc = "done"
    /\ Len(Plan.Flows) = 1
    /\ Plan.Flows[1].Name = "m-echo"
    /\ Len(res.Flows) = 1 /\ Len(res.Flows[1].Steps) = 2
    /\ flowVars["snap"] = flowViews["e"].Res
    /\ Marshal(flowViews["e"].Res, heap) =
          [t |-> "map", m |-> [token |-> VStr("t"), value |-> VStr("changed")]]
    /\ Len(res.Diags) = 1
    /\ res.Diags[1].Code = "E_ASSERT_EXPECTED_TRUE"
    /\ res.Diags[1].Line = 112


(***************************************************************************)
(* The diagnostics of the run attributed to a flow, and the testcases of   *)
(* a suite that report a failure or an error.                              *)
(***************************************************************************)
DiagsOfFlow(name) == SelectSeq(res.Diags, LAMBDA d : d.Flow = name)

FailedCases(suite) ==
    SelectSeq(suite.Testcases, LAMBDA tc : tc.Status \in {"failure", "error"})

\* C29: the report never hides a failure: for every flow of the plan with at
\* least one diagnostic of the run attributed to it, the flow's suite has a
\* testcase whose status is failure or error.
C29_ReportShowsEveryFailedFlow ==
    pc = "reported" =>
        \A i \in 1..Len(Plan.Flows) :
            DiagsOfFlow(Plan.Flows[i].Name) # <<>> => FailedCases(out.Suites[i]) # <<>>

\* flow l-alias with the chain login:login, login answered 201: the
\* assertion of login fails, the diagnostic names the request login, the
\* testcase of the step is looked up as login:login and reads passed
C29_AliasEqualToRequestName ==
    /\ pc = "reported"
    /\ Len(Plan.Flows) = 1
    /\ Plan.Flows[1].Name = "l-alias"
    /\ Len(res.Diags) = 1
    /\ res.Diags[1].Code = "E_ASSERT_EXPECTED_TRUE"
    /\ res.Diags[1].Flow = "l-alias"
    /\ res.Diags[1].Request = "login"
    /\ Len(out.Suites) = 1
    /\ Len(out.Suites[1].Testcases) = 1
    /\ out.Suites[1].Testcases[1].Request = "login:login"
    /\ out.Suites[1].Testcases[1].Status = "passed"
    /\ out.Summary = Summary(1, 0, 0)


(***************************************************************************)
(* A request used as a template only: it declares no HTTP line, it is the  *)
(* parent of at least one request, each of its children declares an HTTP   *)
(* line of its own, and no flow of the entry module has it as a step.      *)
(***************************************************************************)
DeclaresHTTP(req) == SelectKind(req.Decl.Lines, "HttpLine") # <<>>

Children(name) == {n \in DOMAIN c.reqs : c.reqs[n].Decl.Parent = name}

StepsOfEntry ==
    LET flows == SelectKind(EntryStmts(program), "FlowDecl")
    IN UNION {{flows[i].Chain[j].ReqName : j \in 1..Len(flows[i].Chain)} :
                 i \in 1..Len(flows)}

TemplateOnly(name) ==
    /\ name \in DOMAIN c.reqs
    /\ ~DeclaresHTTP(c.reqs[name])
    /\ Children(name) # {}
    /\ \A n \in Children(name) : DeclaresHTTP(c.reqs[n])
    /\ name \notin StepsOfEntry

MissingHTTPLine(name) ==
    \E i \in 1..Len(compiled.diags) :
        /\ compiled.diags[i].Code = "E_SEM_REQ_MISSING_HTTP_LINE"
        /\ compiled.diags[i].Line = c.reqs[name].Decl.Span.Line

\* C30: a request that declares no HTTP line, is used only as the parent of
\* requests that declare their own HTTP line and is no step of a flow
\* compiles without E_SEM_REQ_MISSING_HTTP_LINE.
C30_TemplateParentCompiles ==
    pc = "compiled" => \A name \in DOMAIN c.reqs : TemplateOnly(name) => ~MissingHTTPLine(name)

\* the guide's example: authed has an auth and a header directive and no
\* HTTP line, listUsers(authed) has GET /users, no flow: Compile returns no
\* plan and one diagnostic, the missing HTTP line of authed
C30_GuideExampleRejected ==
    /\ pc = "compiled"
    /\ program = [variant |-> "template", flows |-> <<>>]
    /\ TemplateOnly("authed")
    /\ EffLines(c, "listUsers") # <<>>
    /\ Len(SelectKind(EffLines(c, "listUsers"), "HttpLine")) = 1
    /\ Plan.nil
    /\ Len(compiled.diags) = 1
    /\ compiled.diags[1].Code = "E_SEM_REQ_MISSING_HTTP_LINE"
    /\ compiled.diags[1].Line = 260

====
